---- MODULE Spec2Model ----
(***************************************************************************)
(* The Perforce REST gateway of nodejs-api/server.js as a state machine:   *)
(* requests arrive, pass the rate limiter and the route's validators, the  *)
(* handler starts a p4 child process, and when the child ends the handler  *)
(* shapes the CommandResult into the response.  Beside it, the tools of   *)
(* mcp-server/index.js, analyze_sensitive_changes among them, which call   *)
(* the gateway over HTTP.                                                  *)
(*                                                                         *)
(* A JavaScript string is a sequence of atoms.  An atom is a TLA+ string:  *)
(* one character where the code looks inside the text (digits, blanks,     *)
(* line ends, ':'), or one literal fragment of the source where it does    *)
(* not ("sync", " -f").  Concatenation is \o.                              *)
(***************************************************************************)
EXTENDS Integers, Sequences, FiniteSets, TLC

VARIABLES reqs, hits, seen, env, tool

vars == <<reqs, hits, seen, env, tool>>

(* ------------------------------ bounds ------------------------------- *)

\* Requests in flight at the same time.
MaxInFlight == 2

\* Longest child-process stdout, in characters.
MaxOut == 4

\* Requests one address may send in a window under Spec.
SpecCap == 2

\* Requests one address may send past the limit under SpecLimiter.
OverCap == 2

\* Most lines in the output of p4 info.
MaxInfoLines == 3

\* Most changes in a change list the tool adapter gets.
MaxListed == 3

(* ------------------------------- text -------------------------------- *)

\* JavaScript null, where a text is expected.
Null == <<"#null">>

IsWs(c) == c \in {" ", "\n", "\t", "\r"}

RECURSIVE TrimLeft(_)
TrimLeft(s) ==
  IF s # <<>> /\ IsWs(Head(s)) THEN TrimLeft(Tail(s)) ELSE s

RECURSIVE TrimRight(_)
TrimRight(s) ==
  IF s # <<>> /\ IsWs(s[Len(s)]) THEN TrimRight(SubSeq(s, 1, Len(s) - 1)) ELSE s

\* String.prototype.trim
Trim(s) == TrimRight(TrimLeft(s))

\* The first index at which sep occurs in s, or 0.
IndexOf(s, sep) ==
  LET hit == {i \in 1..(Len(s) - Len(sep) + 1) : SubSeq(s, i, i + Len(sep) - 1) = sep}
  IN  IF hit = {} THEN 0 ELSE CHOOSE i \in hit : \A j \in hit : i <= j

\* String.prototype.split with a non-empty string separator.
RECURSIVE Split(_, _)
Split(s, sep) ==
  LET i == IndexOf(s, sep)
  IN  IF i = 0 THEN <<s>>
      ELSE <<SubSeq(s, 1, i - 1)>> \o Split(SubSeq(s, i + Len(sep), Len(s)), sep)

\* Array.prototype.join
RECURSIVE Join(_, _)
Join(parts, sep) ==
  IF parts = <<>> THEN <<>>
  ELSE IF Len(parts) = 1 THEN parts[1]
  ELSE parts[1] \o sep \o Join(Tail(parts), sep)

\* String.prototype.includes for a literal word, which is one atom.
Includes(s, word) == \E i \in 1..Len(s) : s[i] = word

\* All sequences over alphabet of length at most n.
RECURSIVE SeqsUpTo(_, _)
SeqsUpTo(alphabet, n) ==
  IF n = 0 THEN {<<>>}
  ELSE LET shorter == SeqsUpTo(alphabet, n - 1)
       IN  shorter \cup {<<c>> \o s : c \in alphabet, s \in {t \in shorter : Len(t) = n - 1}}

(* --------------------------- JavaScript values ----------------------- *)

\* A request value: its typeof tag and String(value).  An array's text is
\* its elements joined by ",", as String() of an array gives; the elements
\* of the arrays used here hold no comma.
Undef == [t |-> "undefined", v |-> <<>>]
Str(s) == [t |-> "string", v |-> s]
Arr(s) == [t |-> "array", v |-> s]
Bool(b) == [t |-> "boolean", v |-> IF b THEN <<"true">> ELSE <<"false">>]
Num(s) == [t |-> "number", v |-> s]

\* ToBoolean
Truthy(x) ==
  CASE x.t = "undefined" -> FALSE
    [] x.t = "string" -> x.v # <<>>
    [] x.t = "array" -> TRUE
    [] x.t = "boolean" -> x.v = <<"true">>
    [] x.t = "number" -> x.v # <<"0">>

\* The default, whatever was supplied.
OrElseDefault(x, d) == d

\* x || d
OrElse(x, d) == IF Truthy(x) THEN x ELSE d

Range(seq) == {seq[k] : k \in 1..Len(seq)}

\* The elements a standard validator looks at: each element of an array, or
\* the value itself, as text.
Elements(x) == IF x.t = "array" THEN Split(x.v, <<",">>) ELSE <<x.v>>

Digits == {"0", "1", "2", "3", "4", "5", "6", "7", "8", "9"}

DigitVal(c) ==
  CASE c = "0" -> 0 [] c = "1" -> 1 [] c = "2" -> 2 [] c = "3" -> 3 [] c = "4" -> 4
    [] c = "5" -> 5 [] c = "6" -> 6 [] c = "7" -> 7 [] c = "8" -> 8 [] c = "9" -> 9

RECURSIVE DigitsVal(_)
DigitsVal(s) ==
  IF s = <<>> THEN 0 ELSE 10 * DigitsVal(SubSeq(s, 1, Len(s) - 1)) + DigitVal(s[Len(s)])

\* Number to String: the decimal numeral of a natural number.
RECURSIVE Numeral(_)
Numeral(n) ==
  IF n < 10 THEN <<(<<"0", "1", "2", "3", "4", "5", "6", "7", "8", "9">>)[n + 1]>>
  ELSE Numeral(n \div 10) \o Numeral(n % 10)

\* validator.js isInt's pattern: an optional sign, then digits (leading
\* zeroes are allowed unless the allow_leading_zeroes option is false).
IsIntText(s) ==
  LET body == IF s # <<>> /\ Head(s) \in {"+", "-"} THEN Tail(s) ELSE s
  IN  /\ body # <<>>
      /\ \A i \in 1..Len(body) : body[i] \in Digits

\* The number isInt compares with its min and max.
IntOfText(s) ==
  IF Head(s) = "-" THEN 0 - DigitsVal(Tail(s))
  ELSE IF Head(s) = "+" THEN DigitsVal(Tail(s))
  ELSE DigitsVal(s)

(* ----------------------------- validators ---------------------------- *)

\* One entry of validationResult(req).array().
ValidationError(loc, field, x, msg) ==
  [location |-> loc, param |-> field, value |-> x, msg |-> msg]

\* A validator.js validator in a chain: it is applied to every element, and
\* each element that fails (is not in passing) adds an error.
StandardValidation(loc, field, x, passing, msg) ==
  LET bad == SelectSeq(Elements(x), LAMBDA e : e \notin passing)
  IN  [i \in 1..Len(bad) |-> ValidationError(loc, field, x, msg)]

\* A validator of express-validator itself (isString): applied to the value.
CustomValidation(loc, field, x, ok, msg) ==
  IF ok THEN <<>> ELSE <<ValidationError(loc, field, x, msg)>>

\* .optional(): the rest of the chain is skipped for an undefined value.
Optional(x, errors) == IF x.t = "undefined" THEN <<>> ELSE errors

IsString(loc, field, x, msg) == CustomValidation(loc, field, x, x.t = "string", msg)

\* .notEmpty() carries no message of its own.
NotEmpty(loc, field, x) ==
  StandardValidation(loc, field, x, {e \in Range(Elements(x)) : e # <<>>},
                     <<"Invalid value">>)

IsIntIn(loc, field, x, min, max, msg) ==
  StandardValidation(loc, field, x,
    {e \in Range(Elements(x)) :
       IsIntText(e) /\ min <= IntOfText(e) /\ IntOfText(e) <= max}, msg)

IsInt(loc, field, x, msg) ==
  StandardValidation(loc, field, x, {e \in Range(Elements(x)) : IsIntText(e)}, msg)

IsIn(loc, field, x, allowed, msg) ==
  StandardValidation(loc, field, x, allowed, msg)

IsBoolean(loc, field, x, msg) ==
  StandardValidation(loc, field, x, {<<"true">>, <<"false">>, <<"1">>, <<"0">>}, msg)

FILES_MAX_HI == 1000
HISTORY_MAX_HI == 100
CHANGES_MAX_HI == 100

\* The validator arrays of the routes, run on the request's parameters q.
Validators(route, q) ==
  CASE route = "files" ->
         Optional(q.path, IsString("query", "path", q.path, <<"Path must be a string">>))
         \o Optional(q.max, IsIntIn("query", "max", q.max, 1, FILES_MAX_HI,
                                    <<"Max must be between 1 and 1000">>))
    [] route = "content" ->
         NotEmpty("query", "path", q.path)
         \o IsString("query", "path", q.path, <<"Path is required and must be a string">>)
         \o Optional(q.revision, IsInt("query", "revision", q.revision,
                                       <<"Revision must be a number">>))
    [] route = "history" ->
         NotEmpty("query", "path", q.path)
         \o IsString("query", "path", q.path, <<"Path is required and must be a string">>)
         \o Optional(q.max, IsIntIn("query", "max", q.max, 1, HISTORY_MAX_HI,
                                    <<"Max must be between 1 and 100">>))
    [] route = "changes" ->
         Optional(q.max, IsIntIn("query", "max", q.max, 1, CHANGES_MAX_HI,
                                 <<"Max must be between 1 and 100">>))
         \o Optional(q.status, IsIn("query", "status", q.status,
                                    {<<"pending">>, <<"submitted">>},
                                    <<"Status must be pending or submitted">>))
         \o Optional(q.user, IsString("query", "user", q.user, <<"User must be a string">>))
    [] route = "change" ->
         IsInt("params", "changeId", q.changeId, <<"Change ID must be a number">>)
    [] route = "sync" ->
         Optional(q.path, IsString("body", "path", q.path, <<"Path must be a string">>))
         \o Optional(q.force, IsBoolean("body", "force", q.force, <<"Force must be a boolean">>))
    [] OTHER -> <<>>

(* --------------------------- command executor ------------------------ *)

\* What the child process does, chosen by the environment: it exits 0, exits
\* non-zero, is killed at the timeout, or cannot be spawned.
OutcomeKinds == {"exit0", "nonzero", "timeout", "spawn"}

Outcome(kind, stdout, stderr) == [kind |-> kind, stdout |-> stdout, stderr |-> stderr]

FullCommand(command) == <<"p4 ">> \o command

LogEntry(level, msg) == [level |-> level, msg |-> msg]

\* promisify(exec): resolves with the streams when the child exits 0, and
\* rejects with an Error otherwise.
ExecAsync(fullCommand, o) ==
  IF o.kind = "exit0"
  THEN [rejected |-> FALSE, stdout |-> o.stdout, stderr |-> o.stderr, message |-> Null]
  ELSE [rejected |-> TRUE, stdout |-> Null, stderr |-> Null,
        message |-> IF o.kind = "spawn"
                    THEN <<"spawn /bin/sh ENOENT">>
                    ELSE <<"Command failed: ">> \o fullCommand \o <<"\n">> \o o.stderr]

\* executeP4Command that starts the child without a word in the log.
ExecuteLogBeforeNothing(command) == <<>>

\* What executeP4Command logs before the child starts.
ExecuteLogBefore(command) ==
  <<LogEntry("info", <<"Executing P4 command: ">> \o FullCommand(command))>>

\* A catch block that answers an empty output instead of null.
ExecuteCatchEmptyOutput(message) ==
  [threw |-> FALSE, success |-> FALSE, output |-> <<>>, error |-> message,
   log |-> <<LogEntry("error", <<"P4 command failed: ">> \o message)>>]

\* The catch block of executeP4Command.
ExecuteCatch(message) ==
  [threw |-> FALSE, success |-> FALSE, output |-> Null, error |-> message,
   log |-> <<LogEntry("error", <<"P4 command failed: ">> \o message)>>]

\* The try block of executeP4Command once exec has resolved.
ExecuteTry(fullCommand, e) ==
  [threw |-> FALSE, success |-> TRUE, output |-> Trim(e.stdout), error |-> Null,
   log |-> (IF e.stderr # <<>> /\ ~Includes(e.stderr, "warning")
            THEN <<LogEntry("warn", <<"P4 command warning: ">> \o e.stderr)>>
            ELSE <<>>)
           \o <<LogEntry("info", <<"P4 command stdout for \"">> \o fullCommand
                                 \o <<"\":\n">> \o Trim(e.stdout))>>]

\* executeP4Command without its catch block: the rejection escapes.
ExecuteP4CommandUncaught(command, o) ==
  LET e == ExecAsync(FullCommand(command), o)
  IN  IF e.rejected
      THEN [threw |-> TRUE, success |-> FALSE, output |-> Null, error |-> e.message,
            log |-> <<>>]
      ELSE ExecuteTry(FullCommand(command), e)

\* executeP4Command from the await on: the CommandResult it returns, with
\* what it logged on the way.  threw says it let an exception escape.
ExecuteP4Command(command, o) ==
  LET e == ExecAsync(FullCommand(command), o)
  IN  IF e.rejected THEN ExecuteCatch(e.message) ELSE ExecuteTry(FullCommand(command), e)

(* ------------------------------ handlers ----------------------------- *)

DEFAULT_PATH == Str(<<"//depot/...">>)
DEFAULT_MAX_FILES == Num(<<"1", "0", "0">>)
DEFAULT_MAX_HISTORY == Num(<<"1", "0">>)
DEFAULT_MAX_CHANGES == Num(<<"2", "0">>)

\* Routes that run a p4 command.
CommandRoutes ==
  {"health", "info", "files", "content", "history", "changes", "change", "users", "sync"}

\* The force parameter read from the wrong place: always the default.
SyncForceDefaultOnly(q) == Bool(FALSE)

\* const force = req.body.force || false
SyncForce(q) == OrElse(q.force, Bool(FALSE))

\* The command string the handler of the route builds from the parameters.
Command(route, q) ==
  CASE route \in {"health", "info"} -> <<"info">>
    [] route = "files" ->
         <<"files -m ">> \o OrElse(q.max, DEFAULT_MAX_FILES).v
         \o <<" \"">> \o OrElse(q.path, DEFAULT_PATH).v \o <<"\"">>
    [] route = "content" ->
         <<"print -q \"">> \o q.path.v
         \o (IF Truthy(q.revision) THEN <<"#">> \o q.revision.v ELSE <<>>) \o <<"\"">>
    [] route = "history" ->
         <<"filelog -m ">> \o OrElse(q.max, DEFAULT_MAX_HISTORY).v
         \o <<" \"">> \o q.path.v \o <<"\"">>
    [] route = "changes" ->
         <<"changes -m ">> \o OrElse(q.max, DEFAULT_MAX_CHANGES).v
         \o (IF Truthy(q.status) THEN <<" -s ">> \o q.status.v ELSE <<>>)
         \o (IF Truthy(q.user) THEN <<" -u ">> \o q.user.v ELSE <<>>)
    [] route = "change" -> <<"describe -s ">> \o q.changeId.v
    [] route = "users" -> <<"users">>
    [] route = "sync" ->
         <<"sync">> \o (IF Truthy(SyncForce(q)) THEN <<" -f">> ELSE <<>>)
         \o <<" \"">> \o OrElse(q.path, DEFAULT_PATH).v \o <<"\"">>

Response(status, body) == [status |-> status, json |-> TRUE, body |-> body]

NoResp == [status |-> 0, json |-> FALSE, body |-> <<>>]

\* A failure envelope that carries data: null.
FailureWithData(status, message, error) ==
  [status |-> status, json |-> TRUE,
   body |-> [success |-> FALSE, message |-> message, error |-> error, data |-> Null]]

\* The failure envelope the handlers send.
Failure(status, message, error) ==
  Response(status, [success |-> FALSE, message |-> message, error |-> error])

\* The catch block every handler ends with.
InternalError(message) == Failure(500, <<"Internal server error">>, message)

\* A count that goes on from request to request: the lines of this output
\* on top of the requests counted so far in the window.
LineCountRunning(output) ==
  Len(SelectSeq(Split(output, <<"\n">>), LAMBDA line : Trim(line) # <<>>))
  + hits["10.0.0.1"]

\* The count without the filter: every line counts.
LineCountUnfiltered(output) == Len(Split(output, <<"\n">>))

\* result.output.split('\n').filter(line => line.trim()).length
LineCount(output) ==
  Len(SelectSeq(Split(output, <<"\n">>), LAMBDA line : Trim(line) # <<>>))

\* The mapping with the first line of a key kept and later ones dropped.
RECURSIVE ParseInfoFirstWins(_, _)
ParseInfoFirstWins(lines, info) ==
  IF lines = <<>> THEN info
  ELSE LET parts == Split(Head(lines), <<":", " ">>)
           key == Trim(parts[1])
           value == Trim(Join(Tail(parts), <<":", " ">>))
       IN  ParseInfoFirstWins(Tail(lines),
             IF Len(parts) > 1 /\ key \notin DOMAIN info
             THEN [k \in DOMAIN info \cup {key} |-> IF k = key THEN value ELSE info[k]]
             ELSE info)

\* The key: value lines of p4 info as a mapping; a later line overwrites.
RECURSIVE ParseInfo(_, _)
ParseInfo(lines, info) ==
  IF lines = <<>> THEN info
  ELSE LET parts == Split(Head(lines), <<":", " ">>)
           key == Trim(parts[1])
           value == Trim(Join(Tail(parts), <<":", " ">>))
       IN  ParseInfo(Tail(lines),
             IF Len(parts) > 1
             THEN [k \in DOMAIN info \cup {key} |-> IF k = key THEN value ELSE info[k]]
             ELSE info)

\* Every failed command answered as a server error.
FailureStatusAlways500(route) == 500

\* The status and message a handler answers a failed command with.
FailureStatus(route) ==
  CASE route \in {"content", "history", "change"} -> 404
    [] route \in {"info", "files", "changes", "users"} -> 500

FailureMessage(route) ==
  CASE route = "info" -> <<"Failed to get server info">>
    [] route = "files" -> <<"Failed to list files">>
    [] route = "content" -> <<"File not found or cannot be accessed">>
    [] route = "history" -> <<"File history not found">>
    [] route = "changes" -> <<"Failed to list changes">>
    [] route = "change" -> <<"Change not found">>
    [] route = "users" -> <<"Failed to list users">>

\* The data payload of a successful answer.
Data(route, q, result) ==
  CASE route = "info" -> ParseInfo(Split(result.output, <<"\n">>), <<>>)
    [] route = "files" ->
         [rawOutput |-> result.output, count |-> LineCount(result.output),
          path |-> OrElse(q.path, DEFAULT_PATH)]
    [] route = "content" ->
         [path |-> q.path,
          revision |-> IF Truthy(q.revision) THEN <<"#">> \o q.revision.v ELSE <<>>,
          content |-> result.output]
    [] route = "history" -> [path |-> q.path, history |-> result.output]
    [] route = "changes" ->
         [rawOutput |-> result.output, count |-> LineCount(result.output)]
    [] route = "change" ->
         [changeId |-> IntOfText(q.changeId.v), rawOutput |-> result.output]
    [] route = "users" ->
         [rawOutput |-> result.output, count |-> LineCount(result.output)]
    [] route = "sync" ->
         [path |-> OrElse(q.path, DEFAULT_PATH), rawOutput |-> result.output,
          forced |-> SyncForce(q)]

\* The catch block of the route's handler, for an exception with the message.
HandlerCatch(route, message) ==
  IF route = "health"
  THEN Response(503, [status |-> "unhealthy", error |-> message])
  ELSE InternalError(message)

\* The handler of the route from the await on: the response it sends for the
\* CommandResult.  The timestamp of the health answer is left out.
Respond(route, q, result) ==
  IF result.threw THEN HandlerCatch(route, result.error)
  ELSE IF route = "health" THEN
    Response(200, [status |-> "healthy", version |-> <<"1.0.0">>,
                   perforce |-> IF result.success THEN "connected" ELSE "disconnected"])
  ELSE IF route # "sync" /\ ~result.success THEN
    Failure(FailureStatus(route), FailureMessage(route), result.error)
  ELSE Response(200, [success |-> TRUE, data |-> Data(route, q, result)])

GENERIC_ERROR == <<"Something went wrong">>

\* The error-handling middleware, for an error that reached next(error),
\* under the NODE_ENV of the process.
ErrorMiddleware(message, nodeEnv) ==
  Failure(500, <<"Internal server error">>,
          IF nodeEnv = "development" THEN message ELSE GENERIC_ERROR)

\* The answer of handleValidationErrors for a non-empty error list.
ValidationFailure(errors) ==
  Response(400, [success |-> FALSE, message |-> <<"Validation errors">>, errors |-> errors])

\* handleValidationErrors with the return forgotten: it answers and the
\* chain goes on.
HandleValidationErrorsThenNext(errors) ==
  [next |-> TRUE, resp |-> IF errors # <<>> THEN ValidationFailure(errors) ELSE NoResp]

\* handleValidationErrors that on errors neither answers nor calls next().
HandleValidationErrorsSilent(errors) ==
  IF errors # <<>>
  THEN [next |-> FALSE, resp |-> NoResp]
  ELSE [next |-> TRUE, resp |-> NoResp]

\* handleValidationErrors: it answers and stops the chain, or calls next().
HandleValidationErrors(errors) ==
  IF errors # <<>>
  THEN [next |-> FALSE, resp |-> ValidationFailure(errors)]
  ELSE [next |-> TRUE, resp |-> NoResp]

\* GET /api/docs
Docs == Response(200, [title |-> <<"Perforce REST API">>, version |-> <<"1.0.0">>])

\* The 404 handler.
NotFound ==
  Response(404, [success |-> FALSE, message |-> <<"Endpoint not found">>,
                 availableEndpoints |-> <<"/api/docs">>])

(* ---------------------------- rate limiter --------------------------- *)

RATE_MAX == 100

\* A limiter that counts every client under one key.
LimiterKeyShared(addr) == "10.0.0.1"

\* express-rate-limit counts per req.ip.
LimiterKey(addr) == addr

\* A limiter that already rejects the request that reaches the maximum.
LimitReachedAtMax(count) == count >= RATE_MAX

\* The request that brought its key's count to count is rejected.
LimitReached(count) == count > RATE_MAX

TooManyRequests ==
  [status |-> 429, json |-> FALSE,
   body |-> <<"Too many requests from this IP, please try again later.">>]

\* app.use('/api/', limiter): every route but /health is behind the limiter.
BehindLimiter(route) == route # "health"

(* ---------------------------- tool adapter --------------------------- *)
(* The analyze_sensitive_changes tool of mcp-server/index.js: it asks the  *)
(* gateway for the change list, then for the detail of each change listed, *)
(* and writes a report.  The texts it looks inside (change details,        *)
(* keywords) are sequences of characters.                                  *)

UpperCase ==
  <<"A", "B", "C", "D", "E", "F", "G", "H", "I", "J", "K", "L", "M",
    "N", "O", "P", "Q", "R", "S", "T", "U", "V", "W", "X", "Y", "Z">>

LowerCase ==
  <<"a", "b", "c", "d", "e", "f", "g", "h", "i", "j", "k", "l", "m",
    "n", "o", "p", "q", "r", "s", "t", "u", "v", "w", "x", "y", "z">>

\* String.prototype.toLowerCase
ToLowerCase(s) ==
  [k \in 1..Len(s) |->
     IF \E u \in DOMAIN UpperCase : UpperCase[u] = s[k]
     THEN LowerCase[CHOOSE u \in DOMAIN UpperCase : UpperCase[u] = s[k]]
     ELSE s[k]]

\* String.prototype.includes for a text.
IncludesText(s, text) == IndexOf(s, text) # 0

\* A JSON array among the arguments of a tool.
List(items) == [t |-> "list", v |-> items]

\* A parameter with a default value: the default stands in for undefined.
Default(x, d) == IF x = Undef THEN d ELSE x

API_BASE_URL == <<"http://localhost:3000/api">>

\* makeApiRequest with the method defaulting to POST.
MakeApiRequestPost(endpoint, method, data) ==
  [method |-> Default(method, Str(<<"POST">>)).v,
   url |-> API_BASE_URL \o endpoint,
   data |-> Default(data, Str(Null)).v]

\* The request makeApiRequest hands to axios.
MakeApiRequest(endpoint, method, data) ==
  [method |-> Default(method, Str(<<"GET">>)).v,
   url |-> API_BASE_URL \o endpoint,
   data |-> Default(data, Str(Null)).v]

\* The replies of the gateway: an answer with a 2xx status and a JSON body,
\* an answer with another status, or none.
OkReply(body) == [kind |-> "ok", status |-> <<"200">>, body |-> body]
StatusReply(status, message) ==
  [kind |-> "status", status |-> status, body |-> [success |-> FALSE, message |-> message]]
NoReply == [kind |-> "network", status |-> <<>>, body |-> [success |-> FALSE]]

\* What the await of makeApiRequest gives: response.data, or the Error of
\* its catch block.
ApiResult(reply) ==
  CASE reply.kind = "ok" -> [threw |-> FALSE, data |-> reply.body, message |-> Null]
    [] reply.kind = "status" ->
         [threw |-> TRUE, data |-> reply.body,
          message |-> <<"API Error: ">> \o reply.status \o <<" - ">> \o reply.body.message]
    [] reply.kind = "network" ->
         [threw |-> TRUE, data |-> reply.body,
          message |-> <<"Network Error: Unable to reach Perforce API server">>]

\* (await makeApiRequest(...)).data.rawOutput: the text, or the Error of the
\* request, or the TypeError of reading rawOutput of a body without data.
RawOutput(reply) ==
  LET result == ApiResult(reply)
  IN  IF result.threw THEN [threw |-> TRUE, text |-> Null, message |-> result.message]
      ELSE IF "data" \in DOMAIN result.data
      THEN [threw |-> FALSE, text |-> result.data.data.rawOutput, message |-> Null]
      ELSE [threw |-> TRUE, text |-> Null,
            message |-> <<"Cannot read properties of undefined (reading 'rawOutput')">>]

RECURSIVE LeadingDigits(_)
LeadingDigits(s) ==
  IF s # <<>> /\ Head(s) \in Digits THEN <<Head(s)>> \o LeadingDigits(Tail(s)) ELSE <<>>

\* line.match(/^Change (\d+)/): the digits matched, none when there is no
\* match.  'Change ' is one atom.
MatchChange(line) ==
  IF line # <<>> /\ Head(line) = "Change " THEN LeadingDigits(Tail(line)) ELSE <<>>

\* The change numbers of the lines of the change list, parseInt applied.
ChangeNumbers(changesText) ==
  LET changeLines ==
        SelectSeq(Split(changesText, <<"\n">>), LAMBDA line : Trim(line) # <<>>)
      matched == SelectSeq(changeLines, LAMBDA line : MatchChange(line) # <<>>)
  IN  [k \in 1..Len(matched) |-> DigitsVal(MatchChange(matched[k]))]

\* The keywords found with the texts compared as they are.
FoundKeywordsCaseSensitive(changeDetails, keywords) ==
  SelectSeq(keywords, LAMBDA keyword : IncludesText(changeDetails, keyword))

\* The keywords found in the detail text of a change.
FoundKeywords(changeDetails, keywords) ==
  SelectSeq(keywords,
            LAMBDA keyword : IncludesText(ToLowerCase(changeDetails), ToLowerCase(keyword)))

DEFAULT_MAX_ANALYZED == Num(<<"1", "0">>)

DEFAULT_KEYWORDS ==
  List(<< <<"p", "a", "s", "s", "w", "o", "r", "d">>, <<"s", "e", "c", "r", "e", "t">>,
          <<"k", "e", "y">>, <<"t", "o", "k", "e", "n">>,
          <<"c", "r", "e", "d", "e", "n", "t", "i", "a", "l">>, <<"a", "u", "t", "h">> >>)

\* The pieces of the report; the pictographs before the headings are left
\* out.
ReportHeader(changeNumbers, keywords) ==
  <<"Sensitive Change Analysis Report\n", "=====================================\n",
    "Analyzed ">> \o Numeral(Len(changeNumbers)) \o <<" recent changes\n",
    "Keywords searched: ">> \o Join(keywords, <<", ">>) \o <<"\n\n">>

SensitiveBlock(changeId, foundKeywords, changeDetails) ==
  <<"POTENTIALLY SENSITIVE CHANGE ">> \o Numeral(changeId) \o <<"\n",
    "Keywords found: ">> \o Join(foundKeywords, <<", ">>) \o <<"\n",
    "Details:\n">> \o changeDetails \o <<"\n", "'='.repeat(60)", "\n\n">>

FailedBlock(changeId, message) ==
  <<"Could not analyze change ">> \o Numeral(changeId) \o <<": ">> \o message \o <<"\n\n">>

ReportFooter(foundSensitiveChanges, maxChanges, changeNumbers) ==
  IF foundSensitiveChanges = 0
  THEN <<"No potentially sensitive changes found in the last ">> \o maxChanges.v
       \o <<" changes.\n">>
  ELSE <<"\n", "SUMMARY: Found ">> \o Numeral(foundSensitiveChanges)
       \o <<" potentially sensitive changes out of ">> \o Numeral(Len(changeNumbers))
       \o <<" analyzed.\n",
            "Please review these changes carefully for actual sensitive content.\n">>

\* The arguments of a tool call, none given.
NoArguments ==
  [path |-> Undef, max |-> Undef, revision |-> Undef, status |-> Undef,
   user |-> Undef, changeId |-> Undef, force |-> Undef,
   maxChanges |-> Undef, keywords |-> Undef]

\* The tool between calls.  calls are the requests it made, fetched the
\* replies it got for the changes, in order; text is the text returned,
\* code and error the McpError thrown.
ToolIdle ==
  [pc |-> "idle", name |-> "", arguments |-> NoArguments,
   maxChanges |-> Undef, keywords |-> Undef, calls |-> <<>>,
   changesText |-> <<>>, changeNumbers |-> <<>>, at |-> 0, foundSensitiveChanges |-> 0,
   analysisResults |-> <<>>, fetched |-> <<>>, text |-> <<>>,
   code |-> "", error |-> Null]

\* The request for the detail of the change at position at of the list.
DetailRequest(t, at) ==
  MakeApiRequest(<<"/changes/">> \o Numeral(t.changeNumbers[at]), Undef, Undef)

\* The end of the loop: the footer is written and the report returned.
Finish(t) ==
  [t EXCEPT !.pc = "done",
            !.analysisResults =
               @ \o ReportFooter(t.foundSensitiveChanges, t.maxChanges, t.changeNumbers)]

\* analyzeSensitiveChanges up to its first await.
StartAnalysis(maxChanges, keywords) ==
  LET max == Default(maxChanges, DEFAULT_MAX_ANALYZED)
  IN  [ToolIdle EXCEPT
         !.pc = "list",
         !.maxChanges = max,
         !.keywords = Default(keywords, DEFAULT_KEYWORDS),
         !.calls = <<MakeApiRequest(<<"/changes?max=">> \o max.v, Undef, Undef)>>]

\* From the reply to the change list to the next await or to the end.
AfterList(t, reply) ==
  LET changes == RawOutput(reply)
      changeNumbers == ChangeNumbers(changes.text)
      listed == [t EXCEPT !.changesText = changes.text,
                          !.changeNumbers = changeNumbers,
                          !.analysisResults = ReportHeader(changeNumbers, t.keywords.v)]
  IN  IF changes.threw
      THEN [t EXCEPT !.pc = "failed", !.code = "InternalError",
                     !.error = <<"Tool execution failed: ",
                                 "Failed to analyze sensitive changes: ">> \o changes.message]
      ELSE IF changeNumbers = <<>> THEN Finish(listed)
      ELSE [listed EXCEPT !.pc = "detail", !.at = 1,
                          !.calls = @ \o <<DetailRequest(listed, 1)>>]

\* The scan given up at the first change whose detail does not come.
AfterDetailAborting(t, reply) ==
  LET changeDetails == RawOutput(reply)
      got == [t EXCEPT !.fetched = @ \o <<[changeId |-> t.changeNumbers[t.at],
                                           reply |-> reply]>>]
  IN  IF changeDetails.threw
      THEN [got EXCEPT !.pc = "failed", !.code = "InternalError",
                       !.error = <<"Tool execution failed: ",
                                   "Failed to analyze sensitive changes: ">>
                                 \o changeDetails.message]
      ELSE IF t.at = Len(t.changeNumbers) THEN Finish(got)
      ELSE [got EXCEPT !.at = @ + 1,
                       !.calls = @ \o <<MakeApiRequest(<<"/changes/">>
                                                        \o Numeral(t.changeNumbers[t.at + 1]),
                                                      Undef, Undef)>>]

\* From the reply to a change detail to the next await or to the end.
AfterDetail(t, reply) ==
  LET changeId == t.changeNumbers[t.at]
      changeDetails == RawOutput(reply)
      foundKeywords == FoundKeywords(changeDetails.text, t.keywords.v)
      got == [t EXCEPT !.fetched = @ \o <<[changeId |-> changeId, reply |-> reply]>>]
      analyzed ==
        IF changeDetails.threw
        THEN [got EXCEPT !.analysisResults = @ \o FailedBlock(changeId, changeDetails.message)]
        ELSE IF foundKeywords # <<>>
        THEN [got EXCEPT !.foundSensitiveChanges = @ + 1,
                         !.analysisResults =
                            @ \o SensitiveBlock(changeId, foundKeywords, changeDetails.text)]
        ELSE got
  IN  IF t.at = Len(t.changeNumbers) THEN Finish(analyzed)
      ELSE [analyzed EXCEPT !.at = @ + 1,
                            !.calls = @ \o <<DetailRequest(analyzed, t.at + 1)>>]

\* The tools of the switch, analyze_sensitive_changes aside.
SimpleTools ==
  {"get_server_info", "list_files", "get_file_content", "get_file_history",
   "list_changes", "get_change_details", "list_users", "sync_files"}

\* URLSearchParams' encoding of a value, for the characters of the inputs:
\* a space becomes '+', '/' and '#' are percent-encoded, letters, digits
\* and '.' stay.
FormEncode(s) ==
  [k \in 1..Len(s) |->
     CASE s[k] = " " -> "+" [] s[k] = "/" -> "%2F" [] s[k] = "#" -> "%23"
       [] OTHER -> s[k]]

\* URLSearchParams printed: name=value pairs joined by '&'.  A pair whose
\* value is Undef was never appended.
Query(pairs) ==
  LET appended == SelectSeq(pairs, LAMBDA pair : pair.v # Undef)
  IN  Join([k \in 1..Len(appended) |->
              <<appended[k].k, "=">> \o FormEncode(appended[k].v.v)], <<"&">>)

\* x when it is truthy, else nothing: if (x) params.append(...)
IfTruthy(x) == IF Truthy(x) THEN x ELSE Undef

TOOL_DEFAULT_PATH == Str(<<"/", "/", "d", "e", "p", "o", "t", "/", ".", ".", ".">>)

\* The arguments with the defaults of the method's parameters.
WithDefaults(name, a) ==
  CASE name = "list_files" ->
         [a EXCEPT !.path = Default(@, TOOL_DEFAULT_PATH),
                   !.max = Default(@, Num(<<"1", "0", "0">>))]
    [] name = "sync_files" ->
         [a EXCEPT !.path = Default(@, TOOL_DEFAULT_PATH),
                   !.force = Default(@, Bool(FALSE))]
    [] name = "get_file_history" -> [a EXCEPT !.max = Default(@, Num(<<"1", "0">>))]
    [] name = "list_changes" -> [a EXCEPT !.max = Default(@, Num(<<"2", "0">>))]
    [] OTHER -> a

\* The McpError a call throws before any request: the required parameter
\* is falsy, or the switch has no case for the name.
ParamError(name, a) ==
  CASE name \in {"get_file_content", "get_file_history"} /\ ~Truthy(a.path) ->
         [code |-> "InvalidParams", message |-> <<"File path is required">>]
    [] name = "get_change_details" /\ ~Truthy(a.changeId) ->
         [code |-> "InvalidParams", message |-> <<"Change ID is required">>]
    [] name \notin SimpleTools \cup {"analyze_sensitive_changes"} ->
         [code |-> "MethodNotFound", message |-> <<"Unknown tool: ", name>>]
    [] OTHER -> [code |-> "", message |-> Null]

\* The one request of a tool; a holds the defaults.  The body of the POST is
\* the JSON text axios sends.
ToolRequest(name, a) ==
  CASE name = "get_server_info" -> MakeApiRequest(<<"/info">>, Undef, Undef)
    [] name = "list_files" ->
         MakeApiRequest(<<"/files?">> \o Query(<<[k |-> "path", v |-> a.path],
                                                 [k |-> "max", v |-> a.max]>>),
                        Undef, Undef)
    [] name = "get_file_content" ->
         MakeApiRequest(<<"/files/content?">>
                          \o Query(<<[k |-> "path", v |-> a.path],
                                     [k |-> "revision", v |-> IfTruthy(a.revision)]>>),
                        Undef, Undef)
    [] name = "get_file_history" ->
         MakeApiRequest(<<"/files/history?">>
                          \o Query(<<[k |-> "path", v |-> a.path],
                                     [k |-> "max", v |-> a.max]>>),
                        Undef, Undef)
    [] name = "list_changes" ->
         MakeApiRequest(<<"/changes?">>
                          \o Query(<<[k |-> "max", v |-> a.max],
                                     [k |-> "status", v |-> IfTruthy(a.status)],
                                     [k |-> "user", v |-> IfTruthy(a.user)]>>),
                        Undef, Undef)
    [] name = "get_change_details" ->
         MakeApiRequest(<<"/changes/">> \o a.changeId.v, Undef, Undef)
    [] name = "list_users" -> MakeApiRequest(<<"/users">>, Undef, Undef)
    [] name = "sync_files" ->
         MakeApiRequest(<<"/sync">>, Str(<<"POST">>),
                        Str(<<"{\"path\":\"">> \o a.path.v \o <<"\",\"force\":">>
                            \o a.force.v \o <<"}">>))

\* JSON.stringify(data, null, 2) of a mapping of texts, given as its pairs
\* in order; undefined gives undefined.
Stringify(data) ==
  IF data = <<>> THEN <<"{}">>
  ELSE <<"{\n">>
       \o Join([k \in 1..Len(data) |->
                  <<"  \"">> \o data[k].k \o <<"\": \"">> \o data[k].v \o <<"\"">>],
               <<",\n">>)
       \o <<"\n}">>

\* The text a tool returns for the data of the gateway's answer.
ToolText(name, a, data) ==
  CASE name = "get_server_info" -> <<"Perforce Server Information:\n">> \o Stringify(data)
    [] name = "list_files" ->
         <<"Files in ">> \o a.path.v \o <<" (showing ">> \o Numeral(data.count)
         \o <<" files):\n\n">> \o data.rawOutput
    [] name = "get_file_content" ->
         <<"Content of ">> \o a.path.v
         \o (IF Truthy(a.revision) THEN <<"#">> \o a.revision.v ELSE <<>>)
         \o <<":\n\n">> \o data.content
    [] name = "get_file_history" ->
         <<"History for ">> \o a.path.v \o <<":\n\n">> \o data.history
    [] name = "list_changes" ->
         <<"Recent Changes (">> \o Numeral(data.count) \o <<" entries):\n\n">>
         \o data.rawOutput
    [] name = "get_change_details" ->
         <<"Details for Change ">> \o a.changeId.v \o <<":\n\n">> \o data.rawOutput
    [] name = "list_users" ->
         <<"Perforce Users (">> \o Numeral(data.count) \o <<" users):\n\n">>
         \o data.rawOutput
    [] name = "sync_files" ->
         <<"Sync Results for ">> \o a.path.v
         \o (IF Truthy(a.force) THEN <<" (forced)">> ELSE <<>>)
         \o <<":\n\n">> \o data.rawOutput

\* The first property a tool reads of result.data.
FirstRead(name) ==
  CASE name \in {"list_files", "list_changes", "list_users"} -> "count"
    [] name = "get_file_content" -> "content"
    [] name = "get_file_history" -> "history"
    [] OTHER -> "rawOutput"

\* The request of a tool made twice, the parameters unchecked.
StartToolRetried(name, arguments) ==
  LET a == WithDefaults(name, arguments)
  IN  IF name \in SimpleTools
      THEN [ToolIdle EXCEPT !.pc = "await", !.name = name, !.arguments = a,
                            !.calls = <<ToolRequest(name, a), ToolRequest(name, a)>>]
      ELSE [ToolIdle EXCEPT !.pc = "failed", !.name = name, !.arguments = a,
                            !.code = "MethodNotFound"]

\* The CallTool handler up to its first await: the switch, the parameter
\* check of the method and its request.
StartTool(name, arguments) ==
  LET a == WithDefaults(name, arguments)
      thrown == ParamError(name, a)
  IN  IF thrown.code # ""
      THEN [ToolIdle EXCEPT !.pc = "failed", !.name = name, !.arguments = a,
                            !.code = thrown.code, !.error = thrown.message]
      ELSE IF name = "analyze_sensitive_changes"
      THEN [StartAnalysis(a.maxChanges, a.keywords) EXCEPT !.name = name]
      ELSE [ToolIdle EXCEPT !.pc = "await", !.name = name, !.arguments = a,
                            !.calls = <<ToolRequest(name, a)>>]

\* From the gateway's reply to the text returned, or to the McpError the
\* catch of the handler makes of an Error.
AfterReply(t, reply) ==
  LET result == ApiResult(reply)
      failed(message) ==
        [t EXCEPT !.pc = "failed", !.code = "InternalError",
                  !.error = <<"Tool execution failed: ">> \o message]
  IN  IF result.threw THEN failed(result.message)
      ELSE IF "data" \in DOMAIN result.data
      THEN [t EXCEPT !.pc = "done",
                     !.text = ToolText(t.name, t.arguments, result.data.data)]
      ELSE IF t.name = "get_server_info"
      THEN [t EXCEPT !.pc = "done",
                     !.text = <<"Perforce Server Information:\n", "undefined">>]
      ELSE failed(<<"Cannot read properties of undefined (reading '",
                    FirstRead(t.name), "')">>)

(* ------------------------------- inputs ------------------------------ *)

Addrs == {"10.0.0.1", "10.0.0.2"}

Routes == CommandRoutes \cup {"docs", "other"}

NoParams ==
  [path |-> Undef, max |-> Undef, revision |-> Undef, status |-> Undef,
   user |-> Undef, changeId |-> Undef, force |-> Undef]

PathValues ==
  {Undef, Str(<<>>), Str(<<"//depot/main/a.txt">>), Arr(<<"//a", ",", "//b">>)}

MaxValues ==
  {Undef, Str(<<>>), Str(<<"0">>), Str(<<"1">>), Str(<<"1", "0", "0">>),
   Str(<<"1", "0", "1">>), Str(<<"1", "0", "0", "0">>), Str(<<"1", "0", "0", "1">>),
   Str(<<"5">>), Str(<<"a", "b", "c">>), Str(<<"+", "5">>), Arr(<<"5", ",", "7">>)}

RevisionValues == {Undef, Str(<<>>), Str(<<"3">>), Str(<<"x">>)}

StatusValues == {Undef, Str(<<"pending">>), Str(<<"bogus">>)}

UserValues == {Undef, Str(<<"bob">>)}

ChangeIdValues ==
  {Str(<<"1", "2">>), Str(<<"9", "9", "9", "9", "9", "9">>), Str(<<"a", "b", "c">>)}

ForceValues ==
  {Undef, Bool(TRUE), Bool(FALSE), Str(<<"true">>), Str(<<"false">>), Str(<<"1">>),
   Str(<<"0">>), Str(<<"yes">>)}

\* The parameter records a client can send to the route.
ParamsOf(route) ==
  CASE route = "files" ->
         {[NoParams EXCEPT !.path = p, !.max = m] : p \in PathValues, m \in MaxValues}
    [] route = "content" ->
         {[NoParams EXCEPT !.path = p, !.revision = r] : p \in PathValues, r \in RevisionValues}
    [] route = "history" ->
         {[NoParams EXCEPT !.path = p, !.max = m] : p \in PathValues, m \in MaxValues}
    [] route = "changes" ->
         {[NoParams EXCEPT !.max = m, !.status = st, !.user = u] :
            m \in MaxValues, st \in StatusValues, u \in UserValues}
    [] route = "change" -> {[NoParams EXCEPT !.changeId = c] : c \in ChangeIdValues}
    [] route = "sync" ->
         {[NoParams EXCEPT !.path = p, !.force = f] : p \in PathValues, f \in ForceValues}
    [] OTHER -> {NoParams}

Request(addr, route, q) == [addr |-> addr, route |-> route, q |-> q]

RequestsFrom(addrs, routes) ==
  UNION {{Request(a, r, q) : q \in ParamsOf(r)} : a \in addrs, r \in routes}

\* Child-process output: every text of at most MaxOut characters.
Stdouts == SeqsUpTo({"a", " ", "\n"}, MaxOut)

Stderrs == {<<>>, <<"warning", ":", " ", "x">>, <<"e", "r", "r">>}

\* The outcomes of the kinds: an exit 0 with any of the outputs, a non-zero
\* exit or a timeout with what was written to stderr, a failed spawn.
Outcomes(kinds, stdouts, stderrs) ==
  {Outcome("exit0", so, se) : so \in {t \in stdouts : "exit0" \in kinds}, se \in stderrs}
  \cup {Outcome(k, <<>>, se) : k \in kinds \cap {"nonzero", "timeout"}, se \in stderrs}
  \cup {Outcome(k, <<>>, <<>>) : k \in kinds \cap {"spawn"}}

\* Lines of p4 info: with the separator, with it twice, with blanks around
\* key and value, with a colon that is no separator, without any, with an
\* empty key, with an empty value.
InfoLines ==
  {<<"a", ":", " ", "b">>, <<"a", ":", " ", "c">>,
   <<"b", ":", " ", "a", ":", " ", "c">>, <<" ", "a", " ", ":", " ", "b", " ">>,
   <<"a", ":", "b">>, <<"a", "b">>, <<":", " ", "b">>, <<"a", ":", " ">>}

\* Outputs of p4 info of up to MaxInfoLines lines.
InfoOutputs == {Join(ls, <<"\n">>) : ls \in SeqsUpTo(InfoLines, MaxInfoLines)}

\* Arguments of analyze_sensitive_changes: each given or left out.
AnalyzeArguments ==
  {[maxChanges |-> m, keywords |-> k] :
     m \in {Undef, Num(<<"3">>)},
     k \in {Undef, List(<< <<"K", "e", "y">>, <<"x">> >>), List(<<>>)}}

\* A line of p4 changes for the change number.
ChangeLine(n) == <<"Change ">> \o Numeral(n) \o <<" on 2024/01/01 by bob@ws 'x'">>

\* Change lists of up to MaxListed changes, numbered from 9 on, and one
\* with a line that is no change line and a blank line.
ChangeLists ==
  {Join([k \in 1..n |-> ChangeLine(8 + k)], <<"\n">>) : n \in 0..MaxListed}
  \cup {<<"n", "o", "\n">> \o ChangeLine(7) \o <<"\n", " ", "\n">>}

\* The gateway's answer to the change-list request, with the field the tool
\* reads.
ChangesBody(rawOutput) == [success |-> TRUE, data |-> [rawOutput |-> rawOutput]]

ListReplies ==
  {OkReply(ChangesBody(text)) : text \in ChangeLists}
  \cup {OkReply([success |-> TRUE]),
        StatusReply(<<"500">>, <<"Failed to retrieve changes">>),
        NoReply}

\* Detail texts of a change.
ChangeDetails ==
  {<<"o", "k">>,
   <<"F", "i", "x", " ", "P", "a", "s", "s", "w", "o", "r", "d">>,
   <<"k", "e", "y", "s">>,
   <<>>}

\* The gateway's answer to a change-detail request, with the field the tool
\* reads.
ChangeBody(rawOutput) == [success |-> TRUE, data |-> [rawOutput |-> rawOutput]]

DetailReplies ==
  {OkReply(ChangeBody(text)) : text \in ChangeDetails}
  \cup {StatusReply(<<"404">>, <<"Change not found">>), NoReply}

\* The arguments a caller gives a tool: each left out or given, a path
\* also empty, a number also 0.
ArgumentsOf(name) ==
  LET paths == {Undef, Str(<<>>), Str(<<"/", "/", "a", " ", "b">>)}
  IN  CASE name \in {"list_files", "get_file_history"} ->
             {[NoArguments EXCEPT !.path = p, !.max = m] :
                p \in paths, m \in {Undef, Num(<<"5">>)}}
        [] name = "get_file_content" ->
             {[NoArguments EXCEPT !.path = p, !.revision = r] :
                p \in paths, r \in {Undef, Num(<<"0">>), Num(<<"2">>)}}
        [] name = "list_changes" ->
             {[NoArguments EXCEPT !.max = m, !.status = s, !.user = u] :
                m \in {Undef, Num(<<"5">>)},
                s \in {Undef, Str(<<"submitted">>)},
                u \in {Undef, Str(<<>>), Str(<<"b", "o", "b">>)}}
        [] name = "get_change_details" ->
             {[NoArguments EXCEPT !.changeId = c] :
                c \in {Undef, Num(<<"0">>), Num(<<"1", "2">>)}}
        [] name = "sync_files" ->
             {[NoArguments EXCEPT !.path = p, !.force = f] :
                p \in paths, f \in {Undef, Bool(TRUE), Bool(FALSE)}}
        [] name = "analyze_sensitive_changes" ->
             {[NoArguments EXCEPT !.maxChanges = a.maxChanges, !.keywords = a.keywords] :
                a \in AnalyzeArguments}
        [] OTHER -> {NoArguments, [NoArguments EXCEPT !.changeId = Num(<<"1", "2">>)]}

\* The calls of the tools, and of a name the switch has no case for.
ToolCalls ==
  UNION {{[name |-> n, arguments |-> a] : a \in ArgumentsOf(n)} :
           n \in SimpleTools \cup {"analyze_sensitive_changes", "drop_depot"}}

\* The data of the gateway's answer to the request of a tool, with the
\* fields the tool reads.
ToolData(name) ==
  CASE name = "get_server_info" ->
         {<<>>, <<[k |-> <<"Server version">>, v |-> <<"P4D">>]>>}
    [] name \in {"list_files", "list_changes", "list_users"} ->
         {[rawOutput |-> <<>>, count |-> 0], [rawOutput |-> <<"a">>, count |-> 1]}
    [] name = "get_file_content" -> {[content |-> <<>>], [content |-> <<"a">>]}
    [] name = "get_file_history" -> {[history |-> <<"a">>]}
    [] OTHER -> {[rawOutput |-> <<>>], [rawOutput |-> <<"a">>]}

\* The gateway's replies to the request of a tool.
ToolReplies(name) ==
  {OkReply([success |-> TRUE, data |-> d]) : d \in ToolData(name)}
  \cup {OkReply([success |-> TRUE]),
        StatusReply(<<"500">>, <<"Failed">>),
        NoReply}

(* ------------------------------- state ------------------------------- *)

Slots == 1..MaxInFlight

\* A slot holds one request from its arrival to the end of its response:
\* the commands it started, the CommandResults it got, what it logged, and
\* the response.  after100 records that more than 100 requests of its
\* address arrived in the window before and with it, child how its child
\* process ended, stderr what it had written to its error stream, and thrown
\* the message of the exception raised while the request was handled, and
\* sent how many responses were written for it.
Idle ==
  [pc |-> "idle", addr |-> "", route |-> "", q |-> NoParams, after100 |-> FALSE,
   cmds |-> <<>>, child |-> "", stderr |-> <<>>, results |-> <<>>, log |-> <<>>,
   thrown |-> Null, sent |-> 0, resp |-> NoResp]

\* The values of NODE_ENV: the two documented modes, and not set.
NodeEnvs == {"development", "production", "undefined"}

\* The gateway has started with NODE_ENV one of envs, and the tool adapter.
InitIn(envs) ==
  /\ reqs = [i \in Slots |-> Idle]
  /\ hits = [a \in Addrs |-> 0]
  /\ seen = [a \in Addrs |-> 0]
  /\ env \in envs
  /\ tool = ToolIdle

\* The gateway as docker-compose.yml starts it.
Init == InitIn({"development"})

\* The middleware chain and the handler up to its await, for request r whose
\* key the limiter found over the limit or not.
Middleware(r, limited, nth) ==
  LET checked == HandleValidationErrors(Validators(r.route, r.q))
      arrived == [Idle EXCEPT !.addr = r.addr, !.route = r.route, !.q = r.q,
                              !.after100 = nth > 100]
      answer(resp) == [arrived EXCEPT !.pc = "done", !.resp = resp,
                                      !.sent = IF resp.status # 0 THEN 1 ELSE 0]
  IN  IF limited THEN answer(TooManyRequests)
      ELSE IF r.route = "docs" THEN answer(Docs)
      ELSE IF r.route = "other" THEN answer(NotFound)
      ELSE IF ~checked.next THEN answer(checked.resp)
      ELSE [arrived EXCEPT !.pc = "running",
                           !.resp = checked.resp,
                           !.sent = IF checked.resp.status # 0 THEN 1 ELSE 0,
                           !.cmds = <<Command(r.route, r.q)>>,
                           !.log = ExecuteLogBefore(Command(r.route, r.q))]

\* A request arrives in slot i.  cap bounds what each address sends in a
\* window.
Receive(i, requests, cap) ==
  /\ reqs[i].pc = "idle"
  /\ \E r \in requests :
       LET key == LimiterKey(r.addr)
           count == hits[key] + 1
       IN  IF BehindLimiter(r.route)
           THEN /\ seen[r.addr] < cap[r.addr]
                /\ hits' = [hits EXCEPT ![key] = count]
                /\ seen' = [seen EXCEPT ![r.addr] = @ + 1]
                /\ reqs' = [reqs EXCEPT ![i] =
                              Middleware(r, LimitReached(count), seen[r.addr] + 1)]
           ELSE /\ reqs' = [reqs EXCEPT ![i] = Middleware(r, FALSE, 0)]
                /\ UNCHANGED <<hits, seen>>
  /\ UNCHANGED <<env, tool>>

\* An executor that runs one command at a time (execSync in place of the
\* awaited exec): the child of slot i ends only when no request of a lower
\* slot is still running its own.
ChildExitInTurn(i, outcomes) ==
  /\ reqs[i].pc = "running"
  /\ \A j \in Slots : j < i => reqs[j].pc # "running"
  /\ \E o \in outcomes :
       LET result == ExecuteP4Command(reqs[i].cmds[1], o)
       IN  reqs' = [reqs EXCEPT ![i].pc = "done",
                                ![i].child = o.kind,
                                ![i].stderr = o.stderr,
                                ![i].results = <<[threw |-> result.threw,
                                                  success |-> result.success,
                                                  output |-> result.output,
                                                  error |-> result.error]>>,
                                ![i].log = @ \o result.log,
                                ![i].sent = @ + 1,
                                ![i].resp = Respond(reqs[i].route, reqs[i].q, result)]
  /\ UNCHANGED <<hits, seen, env, tool>>

\* The child of the request in slot i ends and its handler answers.
ChildExit(i, outcomes) ==
  /\ reqs[i].pc = "running"
  /\ \E o \in outcomes :
       LET result == ExecuteP4Command(reqs[i].cmds[1], o)
       IN  reqs' = [reqs EXCEPT ![i].pc = "done",
                                ![i].child = o.kind,
                                ![i].stderr = o.stderr,
                                ![i].results = <<[threw |-> result.threw,
                                                  success |-> result.success,
                                                  output |-> result.output,
                                                  error |-> result.error]>>,
                                ![i].log = @ \o result.log,
                                ![i].sent = @ + 1,
                                ![i].resp = Respond(reqs[i].route, reqs[i].q, result)]
  /\ UNCHANGED <<hits, seen, env, tool>>

\* A request whose JSON body does not parse arrives in slot i: express.json
\* passes the SyntaxError to next() before the limiter is reached, and the
\* error-handling middleware answers.
ReceiveMalformed(i, addrs, messages) ==
  /\ reqs[i].pc = "idle"
  /\ \E a \in addrs, m \in messages :
       reqs' = [reqs EXCEPT ![i] =
                  [Idle EXCEPT !.pc = "done", !.addr = a, !.route = "sync",
                               !.thrown = m, !.sent = 1,
                               !.log = <<LogEntry("error", <<"Unhandled error:">>)>>,
                               !.resp = ErrorMiddleware(m, env)]]
  /\ UNCHANGED <<hits, seen, env, tool>>

\* The child of the request in slot i has ended and the handler's try block
\* raises an exception past the await: the handler's catch block answers.
HandlerThrows(i, messages) ==
  /\ reqs[i].pc = "running"
  /\ \E m \in messages :
       reqs' = [reqs EXCEPT ![i].pc = "done",
                            ![i].thrown = m,
                            ![i].sent = @ + 1,
                            ![i].log = @ \o <<LogEntry("error", <<"Error in handler:">>)>>,
                            ![i].resp = HandlerCatch(reqs[i].route, m)]
  /\ UNCHANGED <<hits, seen, env, tool>>

\* The response has gone out and the slot is free again.
Close(i) ==
  /\ reqs[i].pc = "done"
  /\ reqs' = [reqs EXCEPT ![i] = Idle]
  /\ UNCHANGED <<hits, seen, env, tool>>

\* The limiter's window of address a ends.
WindowExpire(a) ==
  /\ seen[a] > 0
  /\ hits' = [hits EXCEPT ![LimiterKey(a)] = 0]
  /\ seen' = [seen EXCEPT ![a] = 0]
  /\ UNCHANGED <<reqs, env, tool>>

\* One request at a time, with every route and parameter.
Next ==
  \/ Receive(1, RequestsFrom({"10.0.0.1"}, Routes), [a \in Addrs |-> SpecCap])
  \/ ChildExit(1, Outcomes(OutcomeKinds, Stdouts, Stderrs))
  \/ Close(1)
  \/ \E a \in Addrs : WindowExpire(a)

Spec == Init /\ [][Next]_vars

\* Requests in flight together on routes without parameters, behind the
\* limiter (users, docs) and not (health): the first
\* address sends up to OverCap requests past the limit in a window, the other
\* address up to OverCap requests.
NextLimiter ==
  \/ \E i \in Slots :
       Receive(i, RequestsFrom(Addrs, {"users", "docs", "health"}),
               [a \in Addrs |-> IF a = "10.0.0.1" THEN RATE_MAX + OverCap ELSE OverCap])
  \/ \E i \in Slots : ChildExit(i, Outcomes({"exit0", "nonzero"}, {<<>>}, {<<>>}))
  \/ \E i \in Slots : Close(i)
  \/ \E a \in Addrs : WindowExpire(a)

SpecLimiter == Init /\ [][NextLimiter]_vars

\* The tool is called with the arguments.
CallAnalyze(arguments) ==
  /\ tool.pc = "idle"
  /\ \E args \in arguments : tool' = StartAnalysis(args.maxChanges, args.keywords)
  /\ UNCHANGED <<reqs, hits, seen, env>>

\* The gateway's reply to the change-list request arrives.
ChangesReply(replies) ==
  /\ tool.pc = "list"
  /\ \E reply \in replies : tool' = AfterList(tool, reply)
  /\ UNCHANGED <<reqs, hits, seen, env>>

\* The gateway's reply to a change-detail request arrives.
ChangeReply(replies) ==
  /\ tool.pc = "detail"
  /\ \E reply \in replies : tool' = AfterDetail(tool, reply)
  /\ UNCHANGED <<reqs, hits, seen, env>>

\* The report, or the error, has gone back to the caller of the tool.
ToolReturn ==
  /\ tool.pc \in {"done", "failed"}
  /\ tool' = ToolIdle
  /\ UNCHANGED <<reqs, hits, seen, env>>

\* analyze_sensitive_changes, one call at a time, with any of the arguments
\* and any of the replies.
NextAnalyze ==
  \/ CallAnalyze(AnalyzeArguments)
  \/ ChangesReply(ListReplies)
  \/ ChangeReply(DetailReplies)
  \/ ToolReturn

SpecAnalyze == Init /\ [][NextAnalyze]_vars

\* A CallTool request arrives.
CallTool(calls) ==
  /\ tool.pc = "idle"
  /\ \E call \in calls : tool' = StartTool(call.name, call.arguments)
  /\ UNCHANGED <<reqs, hits, seen, env>>

\* The gateway's reply to the request of a tool arrives.
GatewayReply ==
  /\ tool.pc = "await"
  /\ \E reply \in ToolReplies(tool.name) : tool' = AfterReply(tool, reply)
  /\ UNCHANGED <<reqs, hits, seen, env>>

\* The tools, one call at a time, with any of the arguments and any of the
\* replies.
NextTools ==
  \/ CallTool(ToolCalls)
  \/ GatewayReply
  \/ ChangesReply(ListReplies)
  \/ ChangeReply(DetailReplies)
  \/ ToolReturn

SpecTools == Init /\ [][NextTools]_vars

\* GET /api/info, one request at a time, with the outputs of p4 info.
NextInfo ==
  \/ Receive(1, RequestsFrom({"10.0.0.1"}, {"info"}), [a \in Addrs |-> SpecCap])
  \/ ChildExit(1, Outcomes({"exit0", "nonzero"}, InfoOutputs, {<<>>}))
  \/ Close(1)
  \/ \E a \in Addrs : WindowExpire(a)

SpecInfo == Init /\ [][NextInfo]_vars

\* Messages of the SyntaxError express.json raises for a body that does not
\* parse.
ParseErrors == {<<"Unexpected token } in JSON at position 1">>}

\* Messages of exceptions raised in a handler's try block.
HandlerErrors == {<<"Cannot read properties of undefined">>}

\* The requests of every path to an answer: a route with validators, one
\* without, the documentation, a route that does not exist, and /health.
EveryRequests ==
  RequestsFrom({"10.0.0.1"}, {"content", "users", "docs", "other", "health"})

EveryOutcomes == Outcomes(OutcomeKinds, {<<>>, <<"a">>}, {<<>>})

\* One request at a time on every path to an answer, the limiter's rejection
\* and the two error paths among them.
NextEvery ==
  \/ Receive(1, EveryRequests,
             [a \in Addrs |-> IF a = "10.0.0.1" THEN RATE_MAX + OverCap ELSE OverCap])
  \/ ReceiveMalformed(1, {"10.0.0.1"}, ParseErrors)
  \/ ChildExit(1, EveryOutcomes)
  \/ HandlerThrows(1, HandlerErrors)
  \/ Close(1)
  \/ \E a \in Addrs : WindowExpire(a)

\* exec is called with a timeout, so the child of a request always ends and
\* the await of its handler always resumes.
SpecEvery == Init /\ [][NextEvery]_vars /\ WF_vars(ChildExit(1, EveryOutcomes))

\* One request at a time under every NODE_ENV, with the requests and faults
\* that end in the error-handling middleware or in a handler's catch block.
NextErrors ==
  \/ Receive(1, RequestsFrom({"10.0.0.1"}, {"health", "files", "users"}),
             [a \in Addrs |-> SpecCap])
  \/ ReceiveMalformed(1, {"10.0.0.1"}, ParseErrors)
  \/ ChildExit(1, Outcomes(OutcomeKinds, {<<>>, <<"a">>}, {<<>>}))
  \/ HandlerThrows(1, HandlerErrors)
  \/ Close(1)
  \/ \E a \in Addrs : WindowExpire(a)

SpecErrors == InitIn(NodeEnvs) /\ [][NextErrors]_vars

\* The requests that are sent again and again: file listings with and
\* without max and path, the user listing, a change detail, and a sync.
RepeatedRequests ==
  {r \in RequestsFrom({"10.0.0.1"}, {"files", "users", "change", "sync"}) :
     /\ r.q.max \in {Undef, Str(<<"5">>)}
     /\ r.q.path \in {Undef, Str(<<"//depot/main/a.txt">>)}
     /\ r.q.changeId \in {Undef, Str(<<"1", "2">>)}
     /\ r.q.force = Undef}

\* Requests in flight together, the same request among them more than once,
\* each with any result of its command.
NextRepeat ==
  \/ \E i \in Slots : Receive(i, RepeatedRequests, [a \in Addrs |-> SpecCap + 1])
  \/ \E i \in Slots : ChildExit(i, Outcomes({"exit0", "nonzero"}, {<<>>, <<"a">>}, {<<>>}))
  \/ \E i \in Slots : Close(i)
  \/ \E a \in Addrs : WindowExpire(a)

SpecRepeat == Init /\ [][NextRepeat]_vars

(* ------------------------------- claims ------------------------------ *)

Arrived(i) == reqs[i].pc # "idle"
Answered(i) == reqs[i].pc = "done"

\* The request in slot i got its CommandResult.
Settled(i) == Answered(i) /\ reqs[i].results # <<>>

\* The JSON envelope the request in slot i was answered with.
Envelope(i) == reqs[i].resp.body

ValidatedRoutes == {"files", "content", "history", "changes", "change", "sync"}

\* C1: on a route that declares validators, a request that fails validation
\* never reaches executeP4Command: no command is started for it, in any state.
C1_InvalidNeverExecutes ==
  \A i \in Slots :
    (/\ Arrived(i)
     /\ reqs[i].route \in ValidatedRoutes
     /\ Validators(reqs[i].route, reqs[i].q) # <<>>)
    => reqs[i].cmds = <<>> /\ reqs[i].results = <<>> /\ reqs[i].child = ""

\* A file listing with max = 1001 was answered 400 with no command started.
C1_Witness ==
  \E i \in Slots :
    /\ Answered(i)
    /\ reqs[i].route = "files"
    /\ reqs[i].q.max = Str(<<"1", "0", "0", "1">>)
    /\ reqs[i].resp.status = 400
    /\ reqs[i].cmds = <<>>

\* The value is a text that denotes an integer of lo..hi.
IsIntegerWithin(x, lo, hi) ==
  /\ x.t = "string"
  /\ \E n \in lo..hi : x.v = Numeral(n) \/ x.v = <<"+">> \o Numeral(n)

\* The value is a text that denotes an integer: a sign or none, then digits.
IsInteger(x) ==
  /\ x.t = "string"
  /\ LET digits == IF x.v # <<>> /\ x.v[1] \in {"+", "-"} THEN Tail(x.v) ELSE x.v
     IN  digits # <<>> /\ \A k \in 1..Len(digits) : digits[k] \in Digits

\* The value is a boolean, or one of the texts a form sends for one.
IsBooleanValue(x) ==
  \/ x.t = "boolean"
  \/ x.t = "string" /\ x.v \in {<<"true">>, <<"false">>, <<"1">>, <<"0">>}

Given(x) == x # Undef

\* The fields of the request that violate the constraints declared for the
\* route: file listing (path optional string, max optional integer 1..1000),
\* file content (path required non-empty string, revision optional integer),
\* file history (path as before, max optional integer 1..100), change
\* listing (max optional integer 1..100, status optional pending or
\* submitted, user optional string), change detail (changeId required
\* integer), sync (path optional string, force optional boolean).
ViolatedFields(route, q) ==
  CASE route = "files" ->
         {f \in {"path"} : Given(q.path) /\ q.path.t # "string"}
         \cup {f \in {"max"} : Given(q.max) /\ ~IsIntegerWithin(q.max, 1, 1000)}
    [] route = "content" ->
         {f \in {"path"} : q.path.t # "string" \/ q.path.v = <<>>}
         \cup {f \in {"revision"} : Given(q.revision) /\ ~IsInteger(q.revision)}
    [] route = "history" ->
         {f \in {"path"} : q.path.t # "string" \/ q.path.v = <<>>}
         \cup {f \in {"max"} : Given(q.max) /\ ~IsIntegerWithin(q.max, 1, 100)}
    [] route = "changes" ->
         {f \in {"max"} : Given(q.max) /\ ~IsIntegerWithin(q.max, 1, 100)}
         \cup {f \in {"status"} :
                 Given(q.status) /\ q.status \notin {Str(<<"pending">>), Str(<<"submitted">>)}}
         \cup {f \in {"user"} : Given(q.user) /\ q.user.t # "string"}
    [] route = "change" -> {f \in {"changeId"} : ~IsInteger(q.changeId)}
    [] route = "sync" ->
         {f \in {"path"} : Given(q.path) /\ q.path.t # "string"}
         \cup {f \in {"force"} : Given(q.force) /\ ~IsBooleanValue(q.force)}
    [] OTHER -> {}

\* C2: a request that violates a declared constraint is answered 400 with
\* success = false and a non-empty errors list that names every violated
\* field of the request.
C2_EveryViolationReported ==
  \A i \in Slots :
    (/\ Arrived(i)
     /\ ViolatedFields(reqs[i].route, reqs[i].q) # {}
     /\ reqs[i].resp.status # 429)
    => /\ Answered(i)
       /\ reqs[i].resp.status = 400
       /\ Envelope(i).success = FALSE
       /\ Envelope(i).errors # <<>>
       /\ \A f \in ViolatedFields(reqs[i].route, reqs[i].q) :
            \E k \in 1..Len(Envelope(i).errors) : Envelope(i).errors[k].param = f

\* The same, for the requests that repeat no parameter (no array values).
C2_ScalarViolationsReported ==
  \A i \in Slots :
    (/\ Arrived(i)
     /\ ViolatedFields(reqs[i].route, reqs[i].q) # {}
     /\ reqs[i].resp.status # 429
     /\ \A f \in DOMAIN reqs[i].q : reqs[i].q[f].t # "array")
    => /\ Answered(i)
       /\ reqs[i].resp.status = 400
       /\ Envelope(i).success = FALSE
       /\ Envelope(i).errors # <<>>
       /\ \A f \in ViolatedFields(reqs[i].route, reqs[i].q) :
            \E k \in 1..Len(Envelope(i).errors) : Envelope(i).errors[k].param = f

\* C3: when the command fails, file content, file history and change detail
\* answer 404, and info, file list, change list and user list answer 500; the
\* envelope has success = false either way.
C3_FailureStatusByOperation ==
  \A i \in Slots :
    (Settled(i) /\ ~reqs[i].results[1].success)
    => /\ reqs[i].route \in {"content", "history", "change"}
            => reqs[i].resp.status = 404 /\ Envelope(i).success = FALSE
       /\ reqs[i].route \in {"info", "files", "changes", "users"}
            => reqs[i].resp.status = 500 /\ Envelope(i).success = FALSE

\* GET /api/changes/999999 whose describe exited non-zero was answered 404.
C3_Witness ==
  \E i \in Slots :
    /\ Settled(i)
    /\ reqs[i].route = "change"
    /\ reqs[i].q.changeId = Str(<<"9", "9", "9", "9", "9", "9">>)
    /\ reqs[i].child = "nonzero"
    /\ reqs[i].resp.status = 404
    /\ Envelope(i).success = FALSE

\* C4: POST /api/sync answers success = true with the backend's output in
\* data.rawOutput also when the command failed, so that the diagnostic text
\* reaches the client.
C4_SyncSurfacesBackendOutput ==
  \A i \in Slots :
    (Settled(i) /\ reqs[i].route = "sync" /\ ~reqs[i].results[1].success)
    => /\ reqs[i].resp.status = 200
       /\ Envelope(i).success = TRUE
       /\ Envelope(i).data.rawOutput # Null

\* C5: executeP4Command never throws: however the child ends, the handler
\* gets a CommandResult, and on every failure it has success = false and the
\* error text.
C5_ExecutorNeverThrows ==
  \A i \in Slots :
    Answered(i) /\ reqs[i].cmds # <<>>
    => /\ Len(reqs[i].results) = 1
       /\ ~reqs[i].results[1].threw
       /\ reqs[i].results[1].success \in BOOLEAN
       /\ reqs[i].child # "exit0"
            => /\ ~reqs[i].results[1].success
               /\ reqs[i].results[1].error \notin {Null, <<>>}

\* A command was killed at the timeout and the handler got a failed result.
C5_Witness ==
  \E i \in Slots :
    /\ Settled(i)
    /\ reqs[i].child = "timeout"
    /\ ~reqs[i].results[1].threw
    /\ ~reqs[i].results[1].success

\* C6: every CommandResult has exactly one of output and error: success = true
\* comes with a string output and a null error, success = false with an error
\* text and a null output.
C6_ExactlyOneOfOutputAndError ==
  \A i \in Slots : \A k \in 1..Len(reqs[i].results) :
    LET result == reqs[i].results[k]
    IN  IF result.success
        THEN result.output # Null /\ result.error = Null
        ELSE result.error \notin {Null, <<>>} /\ result.output = Null

\* A child that could not be spawned gave a result with the error alone.
C6_Witness ==
  \E i \in Slots :
    /\ Settled(i)
    /\ reqs[i].child = "spawn"
    /\ reqs[i].results[1].output = Null
    /\ reqs[i].results[1].error # Null

\* C7: in every envelope an /api handler sends, success = true comes with a
\* data field and success = false comes without one.
C7_DataIffSuccess ==
  \A i \in Slots :
    (/\ Answered(i)
     /\ BehindLimiter(reqs[i].route)
     /\ reqs[i].resp.json
     /\ "success" \in DOMAIN Envelope(i))
    => (Envelope(i).success <=> "data" \in DOMAIN Envelope(i))

\* A sync whose command failed was answered success = true, with data.
C7_Witness ==
  \E i \in Slots :
    /\ Settled(i)
    /\ reqs[i].route = "sync"
    /\ ~reqs[i].results[1].success
    /\ Envelope(i).success
    /\ "data" \in DOMAIN Envelope(i)

\* The lines of text that hold a character that is not white space: the
\* positions of the first such character of each line.
NonBlankLines(text) ==
  {i \in 1..Len(text) :
     /\ ~IsWs(text[i])
     /\ \A j \in 1..(i - 1) :
          (\A k \in j..(i - 1) : text[k] # "\n") => IsWs(text[j])}

\* C8: on success the count of file list, change list and user list is the
\* number of lines of data.rawOutput that are not blank, the empty output
\* (count 0) included.
C8_CountIsNonBlankLines ==
  \A i \in Slots :
    (/\ Settled(i)
     /\ reqs[i].route \in {"files", "changes", "users"}
     /\ Envelope(i).success)
    => Envelope(i).data.count = Cardinality(NonBlankLines(Envelope(i).data.rawOutput))

\* A listing whose command printed nothing was answered with count 0.
C8_Witness ==
  \E i \in Slots :
    /\ Settled(i)
    /\ reqs[i].route = "users"
    /\ Envelope(i).success
    /\ Envelope(i).data.rawOutput = <<>>
    /\ Envelope(i).data.count = 0

\* C9: for POST /api/sync, with force left out the command has no -f and
\* forced is false; with force true the command has -f and forced is true.
C9_ForceFlag ==
  \A i \in Slots :
    (Settled(i) /\ reqs[i].route = "sync")
    => /\ reqs[i].q.force = Undef
            => /\ ~Includes(reqs[i].cmds[1], " -f")
               /\ Envelope(i).data.forced = Bool(FALSE)
       /\ reqs[i].q.force = Bool(TRUE)
            => /\ Includes(reqs[i].cmds[1], " -f")
               /\ Envelope(i).data.forced = Bool(TRUE)

\* A forced sync ran sync -f and was answered forced = true.
C9_Witness ==
  \E i \in Slots :
    /\ Settled(i)
    /\ reqs[i].route = "sync"
    /\ reqs[i].q.force = Bool(TRUE)
    /\ reqs[i].cmds[1] = <<"sync", " -f", " \"", "//depot/...", "\"">>
    /\ Envelope(i).data.forced = Bool(TRUE)

C11_HealthStatusFollowsCommand ==
  \A i \in Slots :
    (Settled(i) /\ reqs[i].route = "health")
    => /\ reqs[i].cmds = <<<<"info">>>>
       /\ Envelope(i).status = "healthy" <=> reqs[i].results[1].success

\* What holds of the health answer: the status is 'healthy' whatever the
\* command did, and the perforce field follows the command.
C11_PerforceFieldFollowsCommand ==
  \A i \in Slots :
    (Settled(i) /\ reqs[i].route = "health")
    => /\ reqs[i].cmds = <<<<"info">>>>
       /\ reqs[i].resp.status = 200
       /\ Envelope(i).status = "healthy"
       /\ Envelope(i).perforce = "connected" <=> reqs[i].results[1].success

\* The request in slot i was answered with a failure envelope.
FailureAnswer(i) ==
  /\ Answered(i)
  /\ reqs[i].resp.json
  /\ "success" \in DOMAIN Envelope(i)
  /\ ~Envelope(i).success

\* C13: every failure response, whether of a validation failure, a command
\* failure, an internal error or an unmatched route, has both a message
\* field and an error field.
C13_FailureHasMessageAndError ==
  \A i \in Slots :
    FailureAnswer(i) => {"message", "error"} \subseteq DOMAIN Envelope(i)

\* What holds of the failure responses: each has a message, and the ones of
\* a failed command carry the command's error in the error field.
C13_CommandFailureHasMessageAndError ==
  \A i \in Slots :
    FailureAnswer(i)
    => /\ "message" \in DOMAIN Envelope(i)
       /\ Settled(i) => /\ "error" \in DOMAIN Envelope(i)
                        /\ Envelope(i).error = reqs[i].results[1].error

\* The error messages executeP4Command gives for the command when its child
\* exits non-zero, over what the child wrote to stderr.
NonZeroExitErrors(command) ==
  {ExecuteP4Command(command, Outcome("nonzero", <<>>, se)).error : se \in Stderrs}

\* C14: a command that runs past the timeout is ended and executeP4Command
\* resolves with success false and an error message that tells the timeout
\* from a non-zero exit.
C14_TimeoutErrorIsDistinct ==
  \A i \in Slots :
    (Settled(i) /\ reqs[i].child = "timeout")
    => /\ ~reqs[i].results[1].success
       /\ reqs[i].results[1].error \notin NonZeroExitErrors(reqs[i].cmds[1])

\* What holds of a command that ran past the timeout: executeP4Command
\* resolves with success false, no output and the exec rejection's message.
C14_TimeoutResolvesAsFailure ==
  \A i \in Slots :
    (Settled(i) /\ reqs[i].child = "timeout")
    => /\ ~reqs[i].results[1].threw
       /\ ~reqs[i].results[1].success
       /\ reqs[i].results[1].output = Null
       /\ reqs[i].results[1].error \in NonZeroExitErrors(reqs[i].cmds[1])

\* The log of the request in slot i has an entry with the text in it.
Logged(i, text) ==
  \E k \in 1..Len(reqs[i].log) :
    LET msg == reqs[i].log[k].msg
    IN  \E at \in 1..(Len(msg) - Len(text) + 1) : SubSeq(msg, at, at + Len(text) - 1) = text

\* C20: when the child exits normally and wrote to stderr, executeP4Command
\* still returns success true and the stderr text is logged, whatever the
\* text, advisory warnings included.
C20_StderrOnSuccessIsLogged ==
  \A i \in Slots :
    (Settled(i) /\ reqs[i].child = "exit0" /\ reqs[i].stderr # <<>>)
    => /\ reqs[i].results[1].success
       /\ Logged(i, reqs[i].stderr)

\* What holds when the child exits normally and wrote to stderr: success is
\* true, and the stderr text is logged, at level warn, exactly when it does
\* not have the word 'warning' in it.
C20_StderrLoggedUnlessWarning ==
  \A i \in Slots :
    (Settled(i) /\ reqs[i].child = "exit0" /\ reqs[i].stderr # <<>>)
    => /\ reqs[i].results[1].success
       /\ Logged(i, reqs[i].stderr) <=> ~Includes(reqs[i].stderr, "warning")

\* The text of the parameter as the command gets it: the supplied text, or
\* the documented default when the parameter was left out.
SuppliedOr(x, default) == IF Given(x) THEN x.v ELSE default

\* The same, with an empty text counted as left out.
NonEmptyOr(x, default) == IF Given(x) /\ x.v # <<>> THEN x.v ELSE default

\* C16: an optional parameter left out takes the documented default after
\* validation (file list max 100 and path //depot/..., change list max 20,
\* file history max 10), and a supplied value is used unchanged, in the
\* command and in data.path.
C16_DefaultsOrSuppliedUnchanged ==
  \A i \in Slots :
    (Arrived(i) /\ reqs[i].cmds # <<>>)
    => LET q == reqs[i].q
           cmd == reqs[i].cmds[1]
       IN  /\ reqs[i].route = "files"
                => /\ cmd = <<"files -m ">> \o SuppliedOr(q.max, Numeral(100)) \o <<" \"">>
                            \o SuppliedOr(q.path, <<"//depot/...">>) \o <<"\"">>
                   /\ (Settled(i) /\ Envelope(i).success)
                        => Envelope(i).data.path.v = SuppliedOr(q.path, <<"//depot/...">>)
           /\ reqs[i].route = "history"
                => LET rest == <<" \"">> \o q.path.v \o <<"\"">> IN
                     cmd = <<"filelog -m ">> \o SuppliedOr(q.max, Numeral(10)) \o rest
           /\ reqs[i].route = "changes"
                => SubSeq(cmd, 1, 1 + Len(SuppliedOr(q.max, Numeral(20))))
                   = <<"changes -m ">> \o SuppliedOr(q.max, Numeral(20))

\* C16, amended: the same, with a parameter supplied as the empty text
\* taking the default like one left out.
C16_DefaultsOrNonEmptyUnchanged ==
  \A i \in Slots :
    (Arrived(i) /\ reqs[i].cmds # <<>>)
    => LET q == reqs[i].q
           cmd == reqs[i].cmds[1]
       IN  /\ reqs[i].route = "files"
                => /\ cmd = <<"files -m ">> \o NonEmptyOr(q.max, Numeral(100)) \o <<" \"">>
                            \o NonEmptyOr(q.path, <<"//depot/...">>) \o <<"\"">>
                   /\ (Settled(i) /\ Envelope(i).success)
                        => Envelope(i).data.path.v = NonEmptyOr(q.path, <<"//depot/...">>)
           /\ reqs[i].route = "history"
                => LET rest == <<" \"">> \o q.path.v \o <<"\"">> IN
                     cmd = <<"filelog -m ">> \o NonEmptyOr(q.max, Numeral(10)) \o rest
           /\ reqs[i].route = "changes"
                => SubSeq(cmd, 1, 1 + Len(NonEmptyOr(q.max, Numeral(20))))
                   = <<"changes -m ">> \o NonEmptyOr(q.max, Numeral(20))

\* GET /api/files?max=5 without a path ran files -m 5 on //depot/... and was
\* answered with data.path //depot/... .
C16_Witness ==
  \E i \in Slots :
    /\ Settled(i)
    /\ reqs[i].route = "files"
    /\ reqs[i].q.max = Str(<<"5">>)
    /\ reqs[i].q.path = Undef
    /\ reqs[i].cmds[1] = <<"files -m ", "5", " \"", "//depot/...", "\"">>
    /\ Envelope(i).success
    /\ Envelope(i).data.path = Str(<<"//depot/...">>)

\* GET /api/files?path= with the empty path ran on //depot/... .
C16_EmptyPathWitness ==
  \E i \in Slots :
    /\ Settled(i)
    /\ reqs[i].route = "files"
    /\ reqs[i].q.path = Str(<<>>)
    /\ reqs[i].cmds[1] = <<"files -m ", "1", "0", "0", " \"", "//depot/...", "\"">>

MaxRoutes == {"files", "history", "changes"}

\* The upper end of the range documented for max on the route.
MaxLimit(route) == IF route = "files" THEN 1000 ELSE 100

\* The value that follows -m in the command: the atoms after the command
\* word up to the next blank.
RECURSIVE UpToBlank(_)
UpToBlank(s) ==
  IF s = <<>> \/ s[1] \in {" \"", " -s ", " -u "} THEN <<>>
  ELSE <<s[1]>> \o UpToBlank(Tail(s))

MaxOfCommand(cmd) == Str(UpToBlank(Tail(cmd)))

\* The validation answer of the request in slot i names the field.
RejectedFor(i, field) ==
  /\ Answered(i)
  /\ reqs[i].resp.status = 400
  /\ \E k \in 1..Len(Envelope(i).errors) : Envelope(i).errors[k].param = field

\* C17: on file list, file history and change list a supplied max is
\* accepted if and only if it is an integer of 1..1000 (file list) or 1..100
\* (history, change list), so the value after -m in every command that is
\* run is in that range.
C17_MaxAcceptedIffInRange ==
  \A i \in Slots :
    (Arrived(i) /\ reqs[i].route \in MaxRoutes /\ reqs[i].resp.status # 429)
    => LET hi == MaxLimit(reqs[i].route)
       IN  /\ Given(reqs[i].q.max)
                => (~RejectedFor(i, "max") <=> IsIntegerWithin(reqs[i].q.max, 1, hi))
           /\ reqs[i].cmds # <<>>
                => IsIntegerWithin(MaxOfCommand(reqs[i].cmds[1]), 1, hi)

\* The same, for the requests that do not repeat max.
C17_ScalarMaxAcceptedIffInRange ==
  \A i \in Slots :
    (/\ Arrived(i) /\ reqs[i].route \in MaxRoutes /\ reqs[i].resp.status # 429
     /\ reqs[i].q.max.t # "array")
    => LET hi == MaxLimit(reqs[i].route)
       IN  /\ Given(reqs[i].q.max)
                => (~RejectedFor(i, "max") <=> IsIntegerWithin(reqs[i].q.max, 1, hi))
           /\ reqs[i].cmds # <<>>
                => IsIntegerWithin(MaxOfCommand(reqs[i].cmds[1]), 1, hi)

\* An exception was raised while the request in slot i was handled.
Threw(i) == Answered(i) /\ reqs[i].thrown # Null

\* The text is in the message or the error field of the answer of slot i.
InAnswer(i, text) ==
  \E f \in {"message", "error"} \cap DOMAIN Envelope(i) : Envelope(i)[f] = text

\* C12: for every unexpected exception raised while a request is handled the
\* answer is a 500 whose error detail is the exception's message only when
\* NODE_ENV is development; in any other mode the detail is a generic
\* message and the exception's message is not in the response.
C12_DetailOnlyInDevelopment ==
  \A i \in Slots :
    Threw(i)
    => /\ reqs[i].resp.status = 500
       /\ IF env = "development"
          THEN Envelope(i).error = reqs[i].thrown
          ELSE ~InAnswer(i, reqs[i].thrown)

\* What holds: the error-handling middleware, which answers for the errors
\* raised before a handler runs, sends the detail only in development; the
\* catch block of a handler sends the exception's message in every mode.
C12_DetailHiddenByMiddlewareOnly ==
  \A i \in Slots :
    Threw(i)
    => IF reqs[i].cmds = <<>>
       THEN /\ reqs[i].resp.status = 500
            /\ IF env = "development"
               THEN Envelope(i).error = reqs[i].thrown
               ELSE ~InAnswer(i, reqs[i].thrown)
       ELSE Envelope(i).error = reqs[i].thrown

GetApiRoutes == {"info", "files", "content", "history", "changes", "change", "users"}

SameLetter(a, b) ==
  \/ a = b
  \/ \E k \in DOMAIN UpperCase :
       {a, b} = {UpperCase[k], LowerCase[k]}

\* The word is in the text as a substring, the case of letters ignored.
ContainsIgnoringCase(text, word) ==
  \E at \in 1..(Len(text) - Len(word) + 1) :
    \A k \in 1..Len(word) : SameLetter(text[at + k - 1], word[k])

\* The numbers of the changes the report flags, in the order of the report,
\* as the report writes them.
FlaggedIn(report) ==
  LET headings == SelectSeq([k \in 1..Len(report) |-> k],
                            LAMBDA k : report[k] = "POTENTIALLY SENSITIVE CHANGE ")
  IN  [h \in 1..Len(headings) |->
         LeadingDigits(SubSeq(report, headings[h] + 1, Len(report)))]

\* The count the summary line of the report gives; the report of no findings
\* has no summary line and gives none.
SummaryCount(report) ==
  IF \E k \in 1..Len(report) : report[k] = "SUMMARY: Found "
  THEN LeadingDigits(SubSeq(report,
                            1 + CHOOSE k \in 1..Len(report) : report[k] = "SUMMARY: Found ",
                            Len(report)))
  ELSE <<"none">>

\* The fetched changes whose detail came and has one of the keywords in it.
MatchingChanges ==
  SelectSeq(tool.fetched,
            LAMBDA f : /\ f.reply.kind = "ok"
                       /\ \E k \in 1..Len(tool.keywords.v) :
                            ContainsIgnoringCase(f.reply.body.data.rawOutput,
                                                 tool.keywords.v[k]))

\* C18: analyze_sensitive_changes reports as flagged exactly the fetched
\* changes whose detail text has at least one keyword in it as a substring,
\* case ignored, and the count of the summary is the number of changes
\* flagged.
C18_FlagsExactlyMatchingChanges ==
  tool.pc = "done"
  => /\ FlaggedIn(tool.analysisResults)
        = [k \in 1..Len(MatchingChanges) |-> Numeral(MatchingChanges[k].changeId)]
     /\ IF MatchingChanges = <<>>
        THEN /\ SummaryCount(tool.analysisResults) = <<"none">>
             /\ \E k \in 1..Len(tool.analysisResults) :
                  tool.analysisResults[k] = "No potentially sensitive changes found in the last "
        ELSE SummaryCount(tool.analysisResults) = Numeral(Len(MatchingChanges))

\* Three changes were fetched, one of them with 'Password' in its detail and
\* the default keywords: that one is flagged and the summary counts 1.
C18_Witness ==
  /\ tool.pc = "done"
  /\ tool.keywords = DEFAULT_KEYWORDS
  /\ Len(tool.fetched) = 3
  /\ tool.fetched[1].reply = OkReply(ChangeBody(<<"o", "k">>))
  /\ tool.fetched[2].reply
       = OkReply(ChangeBody(<<"F", "i", "x", " ", "P", "a", "s", "s", "w", "o", "r", "d">>))
  /\ tool.fetched[3].reply = OkReply(ChangeBody(<<>>))
  /\ FlaggedIn(tool.analysisResults) = << <<"1", "0">> >>
  /\ SummaryCount(tool.analysisResults) = <<"1">>

\* C19: analyze_sensitive_changes changes nothing at the backend: whatever
\* its arguments and whatever the gateway replies, every request it makes is
\* a GET of the change list or of a change detail, never a POST of /sync.
C19_AnalysisOnlyReads ==
  \A k \in 1..Len(tool.calls) :
    LET call == tool.calls[k]
    IN  /\ call.method = <<"GET">>
        /\ call.data = Null
        /\ Len(call.url) >= 3
        /\ call.url[2] \in {"/changes?max=", "/changes/"}
        /\ \A u \in 3..Len(call.url) : call.url[u] \in Digits

\* A run that asked for the change list and for three change details, one
\* of which the gateway did not give.
C19_Witness ==
  /\ tool.pc = "done"
  /\ Len(tool.calls) = 4
  /\ tool.calls[1].url = API_BASE_URL \o <<"/changes?max=", "3">>
  /\ tool.calls[4].url = API_BASE_URL \o <<"/changes/", "1", "1">>
  /\ \E k \in 1..3 : tool.fetched[k].reply.kind = "status"
  /\ \A k \in 1..4 : tool.calls[k].method = <<"GET">>

\* The text is in the message of log entry k of the request in slot i.
InLogEntry(i, k, text) ==
  LET msg == reqs[i].log[k].msg
  IN  \E at \in 1..(Len(msg) - Len(text) + 1) : SubSeq(msg, at, at + Len(text) - 1) = text

\* C21: for every invocation of executeP4Command the command line is logged
\* before the child starts, and the output (on success) or the error (on
\* failure) is logged before the CommandResult is returned: while the child
\* runs the command line is already the first entry of the log, and once the
\* handler has the result its output or error is the last entry, after the
\* command line.
C21_LoggedBeforeStartAndReturn ==
  \A i \in Slots :
    reqs[i].cmds # <<>>
    => /\ Len(reqs[i].log) >= 1
       /\ reqs[i].log[1].level = "info"
       /\ InLogEntry(i, 1, <<"p4 ">> \o reqs[i].cmds[1])
       /\ reqs[i].results # <<>>
            => LET last == Len(reqs[i].log)
                   result == reqs[i].results[1]
               IN  /\ last >= 2
                   /\ IF result.success
                      THEN /\ reqs[i].log[last].level = "info"
                           /\ InLogEntry(i, last, result.output)
                      ELSE /\ reqs[i].log[last].level = "error"
                           /\ InLogEntry(i, last, result.error)

\* A child is running with its command line in the log and no result yet.
C21_Witness ==
  \E i \in Slots :
    /\ reqs[i].pc = "running"
    /\ reqs[i].cmds = << <<"users">> >>
    /\ reqs[i].log = <<LogEntry("info", <<"Executing P4 command: ", "p4 ", "users">>)>>
    /\ reqs[i].results = <<>>

\* The value denotes true: the boolean true, or one of its text forms.
DenotesTrue(x) == x \in {Bool(TRUE), Str(<<"true">>), Str(<<"1">>)}

\* C26: for every force value that passes the boolean validation of POST
\* /api/sync, the text forms 'true', 'false', '1' and '0' among them, the
\* sync command has -f if and only if the value denotes true, and the forced
\* field of the answer denotes the same truth value.
C26_ForceFollowsTruthValue ==
  \A i \in Slots :
    (/\ reqs[i].route = "sync" /\ reqs[i].cmds # <<>>
     /\ Given(reqs[i].q.force) /\ IsBooleanValue(reqs[i].q.force))
    => /\ Includes(reqs[i].cmds[1], " -f") <=> DenotesTrue(reqs[i].q.force)
       /\ Settled(i)
            => (DenotesTrue(Envelope(i).data.forced) <=> DenotesTrue(reqs[i].q.force))

\* What holds of the accepted force values: the command has -f for every
\* value but the boolean false, and forced is the value as it was sent.
C26_ForceFollowsTruthiness ==
  \A i \in Slots :
    (/\ reqs[i].route = "sync" /\ reqs[i].cmds # <<>>
     /\ Given(reqs[i].q.force) /\ IsBooleanValue(reqs[i].q.force))
    => /\ Includes(reqs[i].cmds[1], " -f") <=> reqs[i].q.force # Bool(FALSE)
       /\ Settled(i) => Envelope(i).data.forced = reqs[i].q.force

\* The places of the line at which the separator ': ' stands.
SeparatorsAt(line) ==
  {p \in 1..(Len(line) - 1) : line[p] = ":" /\ line[p + 1] = " "}

FirstSeparator(line) ==
  CHOOSE p \in SeparatorsAt(line) : \A r \in SeparatorsAt(line) : p <= r

\* The key and the value a line with the separator stands for.
KeyOf(line) == Trim(SubSeq(line, 1, FirstSeparator(line) - 1))
ValueOf(line) == Trim(SubSeq(line, FirstSeparator(line) + 2, Len(line)))

\* The mapping the lines of the output stand for: the keys of the lines that
\* have the separator, each with the value of the last such line.
InfoOf(output) ==
  LET lines == Split(output, <<"\n">>)
      with == {n \in 1..Len(lines) : SeparatorsAt(lines[n]) # {}}
      last(key) == CHOOSE n \in with :
                     /\ KeyOf(lines[n]) = key
                     /\ \A m \in with : KeyOf(lines[m]) = key => m <= n
  IN  [key \in {KeyOf(lines[n]) : n \in with} |-> ValueOf(lines[last(key)])]

\* C23: GET /api/info answers a successful command with the mapping built
\* from the lines of the output: a line with the separator ': ' gives the
\* trimmed text before the first separator as key and the trimmed rest,
\* later separators kept, as value; a line without the separator gives
\* nothing; a later line with the same key overwrites the earlier one.
C23_InfoIsParsedFromLines ==
  \A i \in Slots :
    (Settled(i) /\ reqs[i].route = "info" /\ reqs[i].results[1].success)
    => /\ reqs[i].resp.status = 200
       /\ Envelope(i).success
       /\ Envelope(i).data = InfoOf(reqs[i].results[1].output)

\* An output with a key on two lines, a value with a separator in it and a
\* line without separator was answered with the later value and both keys.
C23_Witness ==
  \E i \in Slots :
    /\ Settled(i)
    /\ reqs[i].route = "info"
    /\ reqs[i].results[1].output
         = <<"a", ":", " ", "b", "\n", "b", ":", " ", "a", ":", " ", "c", "\n",
             "a", ":", " ", "c">>
    /\ DOMAIN Envelope(i).data = {<<"a">>, <<"b">>}
    /\ Envelope(i).data[<<"a">>] = <<"c">>
    /\ Envelope(i).data[<<"b">>] = <<"a", ":", " ", "c">>

\* C22: with several requests in flight each request runs its own child
\* process and none waits for the command of another: whatever the other
\* requests are doing, a request whose child is running has one command of
\* its own, is not answered yet, and can be answered as soon as that child
\* ends.
C22_NoRequestWaitsForAnother ==
  \A i \in Slots :
    reqs[i].pc = "running"
    => /\ Len(reqs[i].cmds) = 1
       /\ reqs[i].resp = NoResp
       /\ ENABLED ChildExit(i, Outcomes({"exit0"}, {<<>>}, {<<>>}))

\* The request that came second is answered with its result while the
\* child of the request that came first is still running.
C22_Witness ==
  /\ reqs[1].pc = "running"
  /\ reqs[1].route = "files"
  /\ Settled(2)
  /\ reqs[2].route = "users"
  /\ reqs[2].resp.status = 200
  /\ seen["10.0.0.1"] = 2

\* C25: every request to a route of the gateway gets exactly one response
\* on every path (the limiter's rejection, a validation failure, a command
\* that succeeded or failed, an exception in the handler, a route that does
\* not exist): no response is written before the answer, exactly one has
\* been written once the request is answered, and every request that
\* arrived is answered in the end.
C25_ExactlyOneResponse ==
  /\ [](\A i \in Slots :
          /\ reqs[i].sent = IF Answered(i) THEN 1 ELSE 0
          /\ Answered(i) <=> reqs[i].resp # NoResp)
  /\ \A i \in Slots : Arrived(i) ~> Answered(i)

\* The 101st request of the window was answered once, by the limiter.
C25_Witness ==
  \E i \in Slots :
    /\ Answered(i)
    /\ reqs[i].after100
    /\ reqs[i].resp = TooManyRequests
    /\ reqs[i].sent = 1
    /\ reqs[i].cmds = <<>>

\* A request whose handler raised an exception was answered once.
C25_HandlerExceptionWitness ==
  \E i \in Slots :
    /\ Answered(i)
    /\ reqs[i].thrown \in HandlerErrors
    /\ reqs[i].resp.status = 500
    /\ reqs[i].sent = 1

\* The numbers of the lines of the change list that start with 'Change '
\* and a digit, in the order of the list, as the list writes them.
ListedIds(changesText) ==
  LET lines == Split(changesText, <<"\n">>)
      starts == SelectSeq([k \in 1..Len(lines) |-> k],
                          LAMBDA k : /\ Len(lines[k]) >= 2
                                     /\ lines[k][1] = "Change "
                                     /\ lines[k][2] \in Digits)
  IN  [h \in 1..Len(starts) |-> LeadingDigits(Tail(lines[starts[h]]))]

\* A GET of the path under the base address of the gateway.
GetOf(path) == [method |-> <<"GET">>, url |-> API_BASE_URL \o path, data |-> Null]

\* C24: a call of one of the eight plain tools that is not rejected for its
\* parameter has made exactly one request, while it waits and when it is
\* over; analyze_sensitive_changes has made one request for the change list
\* and then, in the order of the list, one request for the detail of each
\* change whose line starts with 'Change ' and digits: all of them when it is
\* done, the first ones while it goes through the list, and the list request
\* alone when that fails.
C24_OneCallPerToolOrPerChange ==
  /\ (tool.name \in SimpleTools /\ tool.code # "InvalidParams") => Len(tool.calls) = 1
  /\ (tool.name = "analyze_sensitive_changes" /\ tool.code # "InvalidParams")
     => LET ids == ListedIds(tool.changesText)
            listCall == GetOf(<<"/changes?max=">> \o tool.maxChanges.v)
            detailCalls(n) == [k \in 1..n |-> GetOf(<<"/changes/">> \o ids[k])]
        IN  CASE tool.pc \in {"list", "failed"} -> tool.calls = <<listCall>>
              [] tool.pc = "detail" ->
                   /\ tool.at <= Len(ids)
                   /\ tool.calls = <<listCall>> \o detailCalls(tool.at)
              [] tool.pc = "done" -> tool.calls = <<listCall>> \o detailCalls(Len(ids))

\* analyze_sensitive_changes is done with a list of a line that is no change
\* line, a change line and a blank line: it made the list request and one
\* detail request, for change 7.
C24_Witness ==
  /\ tool.name = "analyze_sensitive_changes"
  /\ tool.pc = "done"
  /\ ListedIds(tool.changesText) = << <<"7">> >>
  /\ Len(Split(tool.changesText, <<"\n">>)) > 1
  /\ Len(tool.calls) = 2
  /\ tool.calls[2].url = API_BASE_URL \o <<"/changes/", "7">>

\* get_file_content is done for a path and a revision, after one request.
C24_PlainToolWitness ==
  /\ tool.name = "get_file_content"
  /\ tool.pc = "done"
  /\ Truthy(tool.arguments.revision)
  /\ Len(tool.calls) = 1

\* The numbers of the changes the report gives as not analyzable, in the
\* order of the report, as the report writes them.
NotAnalyzableIn(report) ==
  LET headings == SelectSeq([k \in 1..Len(report) |-> k],
                            LAMBDA k : report[k] = "Could not analyze change ")
  IN  [h \in 1..Len(headings) |->
         LeadingDigits(SubSeq(report, headings[h] + 1, Len(report)))]

\* The fetched changes whose detail did not come.
FailedChanges == SelectSeq(tool.fetched, LAMBDA f : f.reply.kind # "ok")

\* C27: in analyze_sensitive_changes a change whose detail does not come
\* does not end the scan.  While the scan goes on, the detail of the next
\* change is requested after every reply, failed or not.  When the tool is
\* done, every change of the list was fetched, in order; the report gives
\* exactly the changes whose detail did not come as not analyzable, flags
\* exactly the changes whose detail came with a keyword in it, and its count
\* is the number of those.  The tool call fails only at the change list:
\* with the list request alone made and no change fetched.
C27_FailedDetailDoesNotAbort ==
  /\ tool.pc = "detail"
     => /\ Len(tool.fetched) = tool.at - 1
        /\ Len(tool.calls) = Len(tool.fetched) + 2
  /\ tool.pc = "done"
     => /\ [k \in 1..Len(tool.fetched) |-> tool.fetched[k].changeId] = tool.changeNumbers
        /\ NotAnalyzableIn(tool.analysisResults)
             = [k \in 1..Len(FailedChanges) |-> Numeral(FailedChanges[k].changeId)]
        /\ FlaggedIn(tool.analysisResults)
             = [k \in 1..Len(MatchingChanges) |-> Numeral(MatchingChanges[k].changeId)]
        /\ tool.foundSensitiveChanges = Len(MatchingChanges)
  /\ tool.pc = "failed"
     => /\ tool.fetched = <<>>
        /\ Len(tool.calls) = 1
        /\ tool.changeNumbers = <<>>

\* Three changes were listed; the detail of the first did not come, the
\* detail of the second came with 'Password' in it, the third came clean:
\* the report gives 9 as not analyzable, flags 10 and counts one.
C27_Witness ==
  /\ tool.pc = "done"
  /\ tool.keywords = DEFAULT_KEYWORDS
  /\ tool.changeNumbers = <<9, 10, 11>>
  /\ Len(tool.fetched) = 3
  /\ tool.fetched[1].reply = NoReply
  /\ tool.fetched[2].reply
       = OkReply(ChangeBody(<<"F", "i", "x", " ", "P", "a", "s", "s", "w", "o", "r", "d">>))
  /\ tool.fetched[3].reply = OkReply(ChangeBody(<<"o", "k">>))
  /\ NotAnalyzableIn(tool.analysisResults) = << <<"9">> >>
  /\ FlaggedIn(tool.analysisResults) = << <<"1", "0">> >>
  /\ tool.foundSensitiveChanges = 1

\* The tools with a required parameter, and the parameter of each.
RequiredOf ==
  [n \in {"get_file_content", "get_file_history", "get_change_details"} |->
     IF n = "get_change_details" THEN "changeId" ELSE "path"]

\* The call was rejected before any request, with the error code.
RejectedWith(code) ==
  /\ tool.pc = "failed"
  /\ tool.code = code
  /\ tool.calls = <<>>

\* The value is in the address of the request the call made: encoded in the
\* query for a path, as it is in the route for a change number.
Forwarded(name, value) ==
  /\ Len(tool.calls) = 1
  /\ LET url == tool.calls[1].url
         sent == IF name = "get_change_details" THEN value.v
                 ELSE <<"path", "=">> \o FormEncode(value.v)
     IN  \E at \in 1..(Len(url) - Len(sent) + 1) :
           SubSeq(url, at, at + Len(sent) - 1) = sent

\* C28: get_file_content, get_file_history and get_change_details reject a
\* call with InvalidParams and without a request exactly when the required
\* parameter was left out, and forward every value that was given, the
\* change number 0 too; a name that is no tool is rejected with
\* MethodNotFound and without a request.
C28_RejectedIffParameterAbsent ==
  /\ tool.name \in DOMAIN RequiredOf
     => LET value == tool.arguments[RequiredOf[tool.name]]
        IN  /\ RejectedWith("InvalidParams") <=> value = Undef
            /\ value # Undef => Forwarded(tool.name, value)
  /\ tool.name \notin SimpleTools \cup {"analyze_sensitive_changes", ""}
     => RejectedWith("MethodNotFound")

\* What the code does: the three tools reject a call exactly when the
\* required parameter is falsy (left out, the empty text or the number 0),
\* and forward every other value; a name that is no tool is rejected with
\* MethodNotFound and without a request.
C28_RejectedIffParameterFalsy ==
  /\ tool.name \in DOMAIN RequiredOf
     => LET value == tool.arguments[RequiredOf[tool.name]]
        IN  /\ RejectedWith("InvalidParams") <=> ~Truthy(value)
            /\ Truthy(value) => Forwarded(tool.name, value)
  /\ tool.name \notin SimpleTools \cup {"analyze_sensitive_changes", ""}
     => RejectedWith("MethodNotFound")

\* get_change_details was called with the change number 0 and rejected.
C28_ZeroRejected ==
  /\ tool.name = "get_change_details"
  /\ tool.arguments.changeId = Num(<<"0">>)
  /\ RejectedWith("InvalidParams")

====
